---- MODULE Spec2Model ----
(***************************************************************************)
(* Model of the text-segmentation-and-extraction engine of                 *)
(* StatCom-MCYJ-downloader:                                                *)
(*   - extract_violations / parse_document (src/parse_parquet_violations.py*)
(*     and src/pdf_parsing/extract_document_info.py)                       *)
(*   - parse_rules_from_pages (src/parse_licensing_rules.py)               *)
(*                                                                         *)
(* Text is modelled as a sequence of lexemes.  A lexeme is the literal     *)
(* piece of text it stands for (a TLA+ string), so character offsets,      *)
(* lengths and the strings the program returns are the real ones.  The     *)
(* regular expressions of the source are translated to operators over      *)
(* lexeme sequences; what a lexeme contains (the word "violation", a       *)
(* negating phrase, ...) is read from the lexeme's text and tabulated in   *)
(* the Has... sets below.  Phrases never straddle two lexemes.             *)
(***************************************************************************)
EXTENDS Integers, Sequences, FiniteSets, TLC

VARIABLES
    text,        \* extract_violations: the argument `text`
    pc,          \* position in the running function
    i,           \* index of the match the current loop is at (1-based)
    violations,  \* extract_violations: the local list `violations`
    pages_text,  \* parse_rules_from_pages: the argument `pages_text`
    full_text,   \* parse_rules_from_pages: the local `full_text`
    rules,       \* parse_rules_from_pages: the dict `rules`
    text_pages,  \* parse_document: the argument `text_pages`
    record,      \* parse_document: the dict it returns
    keywords,    \* apply_keyword_reduction: the argument `keywords`
    keyword_map, \* apply_keyword_reduction: the argument `keyword_map`
    reduced_keywords,  \* apply_keyword_reduction: the list it builds
    seen,        \* apply_keyword_reduction: the set `seen`
    frames,      \* the local variables of each call of a batch of calls
    csv_file,    \* pull_facility_info: the rows of facility_information.csv
    all_agency_info,  \* pull_facility_info.main: what get_all_agency_info returned
    existing_data,    \* pull_facility_info.main: the dict `existing_data`
    output_csv,  \* update_sir_summaries / update_violation_levels: the output CSV
    fate,        \* what loading and querying each sha leads to
    count,       \* main: args.count (args.max_count)
    existing_shas,    \* main: the set `existing_shas`
    shas_to_query,    \* main: the list `shas_to_query`
    results,     \* main: the list `results`
    csv_before   \* the rows of the CSV file when the current run started

vars == <<text, pc, i, violations, pages_text, full_text, rules, text_pages, record,
          keywords, keyword_map, reduced_keywords, seen, frames,
          csv_file, all_agency_info, existing_data, output_csv, fate, count,
          existing_shas, shas_to_query, results, csv_before>>

\* The variables of extract_violations, of parse_rules_from_pages and of
\* parse_document.
violationVars == <<text, violations>>
ruleVars == <<pages_text, full_text, rules>>
docVars == <<text_pages, record>>
keywordVars == <<keywords, keyword_map, reduced_keywords, seen>>
callVars == <<frames>>
facilityVars == <<csv_file, all_agency_info, existing_data>>
updateVars == <<output_csv, fate, count, existing_shas, shas_to_query, results>>
fileVars == <<facilityVars, updateVars, csv_before>>

\* No CSV file is in use.
NoFiles ==
    /\ csv_file = <<>> /\ all_agency_info = <<>> /\ existing_data = <<>>
    /\ output_csv = <<>> /\ fate = <<>> /\ count = 0
    /\ existing_shas = {} /\ shas_to_query = <<>> /\ results = <<>>
    /\ csv_before = <<>>

-----------------------------------------------------------------------------
(* Generic helpers on sequences and lexemes                                *)

NL == "\n"
SP == " "

IsSpace(t) == t \in {SP, NL}

\* Long stretches of narrative that contain none of the searched phrases.
Pad600 == "<narrative of 600 characters>"
Pad2980 == "<narrative of 2980 characters>"
Pad3000 == "<narrative of 3000 characters>"
Pad50000 == "<narrative of 50000 characters>"
\* What is left of a lexeme that a slice cuts through.
CutLexeme == "<cut>"

IsPad(t) == t \in {Pad600, Pad2980, Pad3000, Pad50000}

\* len() of the text of one lexeme.
TokLen(t) ==
    CASE t = Pad600 -> 600
      [] t = Pad2980 -> 2980
      [] t = Pad3000 -> 3000
      [] t = Pad50000 -> 50000
      [] OTHER -> Len(t)

RECURSIVE TextLen(_)
\* len() of a text.
TextLen(s) == IF s = <<>> THEN 0 ELSE TokLen(Head(s)) + TextLen(Tail(s))

\* Character offset (0-based) at which lexeme k of s starts.
Off(s, k) == TextLen(SubSeq(s, 1, k - 1))

\* Character offset just after lexeme k of s.
EndOff(s, k) == TextLen(SubSeq(s, 1, k))

Min(a, b) == IF a <= b THEN a ELSE b
Max(a, b) == IF a >= b THEN a ELSE b

\* The characters [A-Z0-9] matches without IGNORECASE.
DigitChars == {"0", "1", "2", "3", "4", "5", "6", "7", "8", "9"}
Capitals ==
    {"A", "B", "C", "D", "E", "F", "G", "H", "I", "J", "K", "L", "M",
     "N", "O", "P", "Q", "R", "S", "T", "U", "V", "W", "X", "Y", "Z"}

\* Is the lexeme a run of capitals and digits.
IsUpperAlnum(t) ==
    /\ ~IsPad(t)
    /\ Len(t) > 0
    /\ \A k \in 1..Len(t) : SubSeq(t, k, k) \in Capitals \cup DigitChars

\* Characters lo..hi of a lexeme that a slice cuts through: a run of capitals
\* and digits keeps the characters inside the slice, any other lexeme loses
\* its phrase (padding stays padding).
Cut(t, lo, hi) ==
    IF IsPad(t) THEN t
    ELSE IF IsUpperAlnum(t) THEN SubSeq(t, lo, hi)
    ELSE CutLexeme

\* Python's s[a:b] for 0 <= a: the lexemes lying inside [a, b), and what is
\* left of a lexeme the slice cuts through.
Slice(s, a, b) ==
    LET F[k \in 0..Len(s)] ==
          IF k = 0 THEN <<>>
          ELSE LET o == Off(s, k)
                   e == EndOff(s, k)
               IN  IF e <= a \/ o >= b THEN F[k - 1]
                   ELSE IF o >= a /\ e <= b THEN Append(F[k - 1], s[k])
                   ELSE Append(F[k - 1], Cut(s[k], Max(a, o) - o + 1, Min(b, e) - o))
    IN  F[Len(s)]

RECURSIVE Join(_)
\* The string a lexeme sequence stands for.
Join(s) == IF s = <<>> THEN "" ELSE Head(s) \o Join(Tail(s))

RECURSIVE LStrip(_)
LStrip(s) == IF s # <<>> /\ IsSpace(Head(s)) THEN LStrip(Tail(s)) ELSE s

RECURSIVE RStrip(_)
RStrip(s) ==
    IF s # <<>> /\ IsSpace(s[Len(s)]) THEN RStrip(SubSeq(s, 1, Len(s) - 1)) ELSE s

\* str.strip()
Strip(s) == RStrip(LStrip(s))

\* Index of the last lexeme of the line that lexeme p is on (the lexeme before
\* the next newline, or the last lexeme of the text): where [^\n]* stops.
RECURSIVE LineEnd(_, _)
LineEnd(s, p) ==
    IF p >= Len(s) THEN Len(s)
    ELSE IF s[p + 1] = NL THEN p
    ELSE LineEnd(s, p + 1)

\* Index of the first lexeme at or after p that is not whitespace
\* (Len(s) + 1 when there is none): where \s* stops.
RECURSIVE SkipSpace(_, _)
SkipSpace(s, p) ==
    IF p > Len(s) THEN p
    ELSE IF IsSpace(s[p]) THEN SkipSpace(s, p + 1)
    ELSE p

InList(x, l) == \E k \in 1..Len(l) : l[k] = x

-----------------------------------------------------------------------------
(* extract_violations: lexemes of an inspection report                     *)

RuleCodeLabel == "Rule Code & CPA Rule"
ApplicableLabel == "APPLICABLE RULE"
ConclVE == "Conclusion Violation Established"
ConclRepeatVE == "Conclusion Repeat Violation Established"
SirConclVE == "CONCLUSION: VIOLATION ESTABLISHED"
SirConclVNE == "CONCLUSION: VIOLATION NOT ESTABLISHED"

\* Lexemes matching \d+\.\d+ as a whole.
Numbers == {"400.1", "400.200", "722.1"}
\* Lexemes matching 400\.\d+ as a whole.
Numbers400 == {"400.1", "400.200"}

\* Lexemes in which re.IGNORECASE finds the word.
HasViolation ==
    {"violation", "not in violation", "no violation",
     ConclVE, ConclRepeatVE, SirConclVE, SirConclVNE}
HasViolated == {"is not violated"}
HasNonCompliance == {"non-compliance"}
HasNot == {"is not violated", "not in violation", "not", SirConclVNE}
HasCompliance == {"compliance", "non-compliance"}
HasAnalysis == {"Analysis"}
HasNegatingPhrase == {"is not violated", "not in violation", "no violation"}

\* re.search(r'Conclusion\s+(?:Repeat\s+)?Violation Established', context, re.IGNORECASE)
ConclusionEstablished(context) ==
    \E k \in 1..Len(context) : context[k] \in {ConclVE, ConclRepeatVE}

\* re.search(r'Analysis.*?violation', context, re.IGNORECASE | re.DOTALL)
AnalysisViolation(context) ==
    \E j \in 1..Len(context), k \in 1..Len(context) :
        j < k /\ context[j] \in HasAnalysis /\ context[k] \in HasViolation

\* Negated with the phrase "is not violated" missing from the alternation.
Negated_WithoutIsNotViolated(context) ==
    \E k \in 1..Len(context) : context[k] \in {"not in violation", "no violation"}

\* re.search(r'is not violated|not in violation|no violation', context, re.IGNORECASE)
Negated(context) ==
    \E k \in 1..Len(context) : context[k] \in HasNegatingPhrase

\* re.search(r'CONCLUSION:\s*VIOLATION ESTABLISHED', context, re.IGNORECASE)
SirConclusionEstablished(context) ==
    \E k \in 1..Len(context) : context[k] = SirConclVE

\* re.search(r'violation|violated|non-compliance|not.*compliance', context, re.IGNORECASE)
\* ('.' does not cross a newline: "not" and "compliance" on one line).
ViolationLanguage(context) ==
    \/ \E k \in 1..Len(context) :
           context[k] \in HasViolation \cup HasViolated \cup HasNonCompliance
    \/ \E j \in 1..Len(context), k \in 1..Len(context) :
           /\ j < k
           /\ context[j] \in HasNot
           /\ context[k] \in HasCompliance
           /\ \A n \in j..k : context[n] # NL

\* One match of rule_pattern starting at lexeme p, or <<>>:
\*   r'Rule Code & (?:CPA|CCI) Rule\s+(\d+\.\d+[^\n]*)'
\* first/last: the lexemes of the match; num: where group(1) starts.
RuleMatchAt(s, p) ==
    IF s[p] # RuleCodeLabel THEN <<>>
    ELSE LET q == SkipSpace(s, p + 1)
         IN  IF q > p + 1 /\ q <= Len(s) /\ s[q] \in Numbers
             THEN <<[first |-> p, num |-> q, last |-> LineEnd(s, q)]>>
             ELSE <<>>

\* One match of applicable_rule_pattern starting at lexeme p, or <<>>:
\*   r'APPLICABLE RULE\s+R\s+(400\.\d+[a-z]?(?:\([^\)]+\))?)'
ApplicableMatchAt(s, p) ==
    IF s[p] # ApplicableLabel THEN <<>>
    ELSE LET r == SkipSpace(s, p + 1)
             q == SkipSpace(s, r + 1)
         IN  IF /\ r > p + 1 /\ r <= Len(s) /\ s[r] = "R"
                /\ q > r + 1 /\ q <= Len(s) /\ s[q] \in Numbers400
             THEN <<[first |-> p, num |-> q, last |-> q]>>
             ELSE <<>>

\* One match of r400_pattern starting at lexeme p, or <<>>:
\*   r'R\s+400\.\d+[a-z]?(?:\([^\)]+\))?'
R400MatchAt(s, p) ==
    IF s[p] # "R" THEN <<>>
    ELSE LET q == SkipSpace(s, p + 1)
         IN  IF q > p + 1 /\ q <= Len(s) /\ s[q] \in Numbers400
             THEN <<[first |-> p, num |-> q, last |-> q]>>
             ELSE <<>>

\* One match of mcl_pattern starting at lexeme p, or <<>>:
\*   r'MCL\s+\d+\.\d+[a-z]?'
MclMatchAt(s, p) ==
    IF s[p] # "MCL" THEN <<>>
    ELSE LET q == SkipSpace(s, p + 1)
         IN  IF q > p + 1 /\ q <= Len(s) /\ s[q] \in Numbers
             THEN <<[first |-> p, num |-> q, last |-> q]>>
             ELSE <<>>

\* re.finditer: the matches from left to right, each search resuming after
\* the previous match.
RECURSIVE RuleMatchesFrom(_, _)
RuleMatchesFrom(s, p) ==
    IF p > Len(s) THEN <<>>
    ELSE LET m == RuleMatchAt(s, p)
         IN  IF m = <<>> THEN RuleMatchesFrom(s, p + 1)
             ELSE m \o RuleMatchesFrom(s, m[1].last + 1)

RECURSIVE ApplicableMatchesFrom(_, _)
ApplicableMatchesFrom(s, p) ==
    IF p > Len(s) THEN <<>>
    ELSE LET m == ApplicableMatchAt(s, p)
         IN  IF m = <<>> THEN ApplicableMatchesFrom(s, p + 1)
             ELSE m \o ApplicableMatchesFrom(s, m[1].last + 1)

RECURSIVE R400MatchesFrom(_, _)
R400MatchesFrom(s, p) ==
    IF p > Len(s) THEN <<>>
    ELSE LET m == R400MatchAt(s, p)
         IN  IF m = <<>> THEN R400MatchesFrom(s, p + 1)
             ELSE m \o R400MatchesFrom(s, m[1].last + 1)

RECURSIVE MclMatchesFrom(_, _)
MclMatchesFrom(s, p) ==
    IF p > Len(s) THEN <<>>
    ELSE LET m == MclMatchAt(s, p)
         IN  IF m = <<>> THEN MclMatchesFrom(s, p + 1)
             ELSE m \o MclMatchesFrom(s, m[1].last + 1)

rule_matches(s) == RuleMatchesFrom(s, 1)
applicable_matches(s) == ApplicableMatchesFrom(s, 1)
r400_matches(s) == R400MatchesFrom(s, 1)
mcl_matches(s) == MclMatchesFrom(s, 1)

\* RuleContext reaching 50,000 characters ahead for every header.
RuleContext_PastNextHeader(s, k) ==
    LET ms == rule_matches(s)
        start_pos == Off(s, ms[k].first)
        end_pos == Min(start_pos + 50000, TextLen(s))
    IN  Slice(s, start_pos, end_pos)

\* The window of the k-th rule-code header: from its start to the start of
\* the next header, or 50,000 characters for the last one.
RuleContext(s, k) ==
    LET ms == rule_matches(s)
        start_pos == Off(s, ms[k].first)
        end_pos == IF k + 1 <= Len(ms) THEN Off(s, ms[k + 1].first)
                   ELSE Min(start_pos + 50000, TextLen(s))
    IN  Slice(s, start_pos, end_pos)

\* RuleRef without the strip().
RuleRef_Unstripped(s, m) == "Rule " \o Join(SubSeq(s, m.num, m.last))

\* f"Rule {match.group(1).strip()}"
RuleRef(s, m) == "Rule " \o Join(Strip(SubSeq(s, m.num, m.last)))

\* The window of an APPLICABLE RULE match: 3,000 characters from its start.
ApplicableContext(s, m) ==
    LET start_pos == Off(s, m.first)
        end_pos == Min(start_pos + 3000, TextLen(s))
    IN  Slice(s, start_pos, end_pos)

\* f"R {match.group(1).strip()}"
ApplicableRef(s, m) == "R " \o Join(Strip(SubSeq(s, m.num, m.last)))

\* CitationContext taking the whole text as the window.
CitationContext_WholeText(s, m) == Slice(s, 0, TextLen(s))

\* The window of a bare citation: 500 characters before and after the match.
CitationContext(s, m) ==
    LET start_pos == Max(0, Off(s, m.first) - 500)
        end_pos == Min(EndOff(s, m.last) + 500, TextLen(s))
    IN  Slice(s, start_pos, end_pos)

\* match.group(0).strip()
CitationRef(s, m) == Join(Strip(SubSeq(s, m.first, m.last)))

\* The branch of the first loop: is the rule of this context recorded?
RuleViolated(context) ==
    \/ ConclusionEstablished(context)
    \/ AnalysisViolation(context) /\ ~Negated(context)

\* The test the bare-citation loops apply to a context.
CitationViolated(context) ==
    ViolationLanguage(context) /\ ~Negated(context)

\* NotYetListed with the membership test left out.
NotYetListed_Unchecked(rule_ref, vs) == TRUE

\* `rule_ref not in [v for v in violations if rule_ref in v]`: an entry equal
\* to rule_ref contains it, so the filter keeps every entry that can be equal
\* and the test is membership in violations.
NotYetListed(rule_ref, vs) == ~InList(rule_ref, vs)

\* One pass of the first loop (lines 224-249 of the source): match k of rule_matches.
RuleCodePass(s, vs, k) ==
    IF RuleViolated(RuleContext(s, k))
    THEN Append(vs, RuleRef(s, rule_matches(s)[k]))
    ELSE vs

\* One pass of the APPLICABLE RULE loop: match k of applicable_matches.
ApplicablePass(s, vs, k) ==
    LET m == applicable_matches(s)[k]
        rule_ref == ApplicableRef(s, m)
    IN  IF /\ SirConclusionEstablished(ApplicableContext(s, m))
           /\ NotYetListed(rule_ref, vs)
        THEN Append(vs, rule_ref)
        ELSE vs

\* One pass of the "R 400." loop: match k of r400_matches.
R400Pass(s, vs, k) ==
    LET m == r400_matches(s)[k]
        rule_ref == CitationRef(s, m)
    IN  IF CitationViolated(CitationContext(s, m)) /\ NotYetListed(rule_ref, vs)
        THEN Append(vs, rule_ref)
        ELSE vs

\* One pass of the MCL loop: match k of mcl_matches.
MclPass(s, vs, k) ==
    LET m == mcl_matches(s)[k]
        rule_ref == CitationRef(s, m)
    IN  IF CitationViolated(CitationContext(s, m)) /\ NotYetListed(rule_ref, vs)
        THEN Append(vs, rule_ref)
        ELSE vs

-----------------------------------------------------------------------------
(* extract_violations as a state machine: one step per loop pass           *)

\* The input texts: up to MaxSegs pieces of report text, in any order.
MaxSegs == 3

ReportPieces ==
    << <<RuleCodeLabel, SP, "400.1", SP, "Staff", SP, NL>>,
       <<RuleCodeLabel, SP, "400.200", NL>>,
       <<RuleCodeLabel, SP, "400.1", SP, ConclVE, NL>>,
       <<ConclVE, NL>>,
       <<ConclRepeatVE, NL>>,
       <<"Analysis", SP, "violation", NL>>,
       <<"is not violated">>,
       <<ApplicableLabel, SP, "R", SP, "400.1", NL>>,
       <<SirConclVE, NL>>,
       <<"R", SP, "400.200", SP>>,
       <<"MCL", SP, "722.1", SP>>,
       <<Pad600>> >>

RECURSIVE Flatten(_)
Flatten(ss) == IF ss = <<>> THEN <<>> ELSE Head(ss) \o Flatten(Tail(ss))

ReportTexts(max) ==
    UNION { { Flatten([k \in 1..n |-> ReportPieces[f[k]]]) :
                f \in [1..n -> 1..Len(ReportPieces)] } : n \in 0..max }

\* A dict with no entry.
EmptyDict == [k \in {} |-> <<>>]

Init ==
    /\ NoFiles
    /\ text \in ReportTexts(MaxSegs)
    /\ pc = "rule"
    /\ i = 1
    /\ violations = <<>>
    /\ pages_text = <<>>
    /\ full_text = <<>>
    /\ rules = EmptyDict
    /\ text_pages = <<>>
    /\ record = EmptyDict
    /\ keywords = <<>> /\ keyword_map = <<>> /\ reduced_keywords = <<>> /\ seen = {}
    /\ frames = <<>>

RuleCodeStep ==
    /\ pc = "rule"
    /\ i <= Len(rule_matches(text))
    /\ violations' = RuleCodePass(text, violations, i)
    /\ i' = i + 1
    /\ UNCHANGED <<text, pc, ruleVars, docVars, keywordVars, callVars, fileVars>>

RuleCodeEnd ==
    /\ pc = "rule"
    /\ i > Len(rule_matches(text))
    /\ pc' = "applicable"
    /\ i' = 1
    /\ UNCHANGED <<text, violations, ruleVars, docVars, keywordVars, callVars, fileVars>>

ApplicableStep ==
    /\ pc = "applicable"
    /\ i <= Len(applicable_matches(text))
    /\ violations' = ApplicablePass(text, violations, i)
    /\ i' = i + 1
    /\ UNCHANGED <<text, pc, ruleVars, docVars, keywordVars, callVars, fileVars>>

ApplicableEnd ==
    /\ pc = "applicable"
    /\ i > Len(applicable_matches(text))
    /\ pc' = "r400"
    /\ i' = 1
    /\ UNCHANGED <<text, violations, ruleVars, docVars, keywordVars, callVars, fileVars>>

R400Step ==
    /\ pc = "r400"
    /\ i <= Len(r400_matches(text))
    /\ violations' = R400Pass(text, violations, i)
    /\ i' = i + 1
    /\ UNCHANGED <<text, pc, ruleVars, docVars, keywordVars, callVars, fileVars>>

R400End ==
    /\ pc = "r400"
    /\ i > Len(r400_matches(text))
    /\ pc' = "mcl"
    /\ i' = 1
    /\ UNCHANGED <<text, violations, ruleVars, docVars, keywordVars, callVars, fileVars>>

MclStep ==
    /\ pc = "mcl"
    /\ i <= Len(mcl_matches(text))
    /\ violations' = MclPass(text, violations, i)
    /\ i' = i + 1
    /\ UNCHANGED <<text, pc, ruleVars, docVars, keywordVars, callVars, fileVars>>

\* return violations
Return ==
    /\ pc = "mcl"
    /\ i > Len(mcl_matches(text))
    /\ pc' = "done"
    /\ UNCHANGED <<text, i, violations, ruleVars, docVars, keywordVars, callVars, fileVars>>

Next ==
    \/ RuleCodeStep
    \/ RuleCodeEnd
    \/ ApplicableStep
    \/ ApplicableEnd
    \/ R400Step
    \/ R400End
    \/ MclStep
    \/ Return

Spec == Init /\ [][Next]_vars

-----------------------------------------------------------------------------
(* Properties of extract_violations                                        *)

\* The lexemes of s that lie wholly inside the character range [a, b).
LexemesWithin(s, a, b) ==
    { s[k] : k \in { j \in 1..Len(s) : Off(s, j) >= a /\ EndOff(s, j) <= b } }

\* The window of the k-th rule-code header, as a set of lexemes.
HeaderWindow(s, k) ==
    LET ms == rule_matches(s)
        from == Off(s, ms[k].first)
        upto == IF k < Len(ms) THEN Off(s, ms[k + 1].first) ELSE from + 50000
    IN  LexemesWithin(s, from, upto)

\* The 500 characters around a bare citation, as a set of lexemes.
CitationWindow(s, m) ==
    LexemesWithin(s, Off(s, m.first) - 500, EndOff(s, m.last) + 500)

Count(x, l) == Cardinality({k \in 1..Len(l) : l[k] = x})

\* Which strategies detect the reference string r in s.
DetectedByRuleCode(s, r) ==
    \E k \in 1..Len(rule_matches(s)) :
        RuleRef(s, rule_matches(s)[k]) = r /\ RuleViolated(RuleContext(s, k))

DetectedByApplicable(s, r) ==
    \E k \in 1..Len(applicable_matches(s)) :
        LET m == applicable_matches(s)[k]
        IN  ApplicableRef(s, m) = r /\ SirConclusionEstablished(ApplicableContext(s, m))

DetectedByR400(s, r) ==
    \E k \in 1..Len(r400_matches(s)) :
        LET m == r400_matches(s)[k]
        IN  CitationRef(s, m) = r /\ CitationViolated(CitationContext(s, m))

DetectedByMcl(s, r) ==
    \E k \in 1..Len(mcl_matches(s)) :
        LET m == mcl_matches(s)[k]
        IN  CitationRef(s, m) = r /\ CitationViolated(CitationContext(s, m))

\* The first strategy, in the order the function runs them, that detects r.
FirstStrategy(s, r) ==
    IF DetectedByRuleCode(s, r) THEN 1
    ELSE IF DetectedByApplicable(s, r) THEN 2
    ELSE IF DetectedByR400(s, r) THEN 3
    ELSE IF DetectedByMcl(s, r) THEN 4
    ELSE 5

NumberOfStrategies(s, r) ==
    Cardinality({n \in 1..4 :
        \/ n = 1 /\ DetectedByRuleCode(s, r)
        \/ n = 2 /\ DetectedByApplicable(s, r)
        \/ n = 3 /\ DetectedByR400(s, r)
        \/ n = 4 /\ DetectedByMcl(s, r)})

(* C1: the list extract_violations returns contains no string more than    *)
(* once, whichever strategy produced each entry, and the entries are in    *)
(* the order in which they were first detected.                            *)
C1_DistinctInDetectionOrder ==
    pc = "done" =>
        /\ \A a, b \in 1..Len(violations) : a # b => violations[a] # violations[b]
        /\ \A a, b \in 1..Len(violations) :
               a < b => FirstStrategy(text, violations[a]) <= FirstStrategy(text, violations[b])

(* C2 as stated: a rule-code header whose window contains violation        *)
(* language together with "is not violated" is never recorded.             *)
C2_NegationAlwaysSuppresses ==
    [][ ( /\ pc = "rule"
          /\ i <= Len(rule_matches(text))
          /\ HeaderWindow(text, i) \cap (HasViolation \cup HasViolated) # {}
          /\ "is not violated" \in HeaderWindow(text, i) )
        => violations' = violations ]_vars

(* C2 amended: a rule-code header whose window contains violation language *)
(* together with "is not violated", and no "Conclusion [Repeat] Violation  *)
(* Established" phrase, is not recorded by the pass for that header.       *)
C2_NegationSuppressesWithoutConclusion ==
    [][ ( /\ pc = "rule"
          /\ i <= Len(rule_matches(text))
          /\ HeaderWindow(text, i) \cap (HasViolation \cup HasViolated) # {}
          /\ "is not violated" \in HeaderWindow(text, i)
          /\ HeaderWindow(text, i) \cap {ConclVE, ConclRepeatVE} = {} )
        => violations' = violations ]_vars

\* A pass over a header with "Analysis ... violation" and "is not violated"
\* and no conclusion phrase in its window has run and recorded nothing.
C2_Witness ==
    /\ pc = "rule"
    /\ i = 2
    /\ Len(rule_matches(text)) >= 1
    /\ "Analysis" \in HeaderWindow(text, 1)
    /\ "violation" \in HeaderWindow(text, 1)
    /\ "is not violated" \in HeaderWindow(text, 1)
    /\ HeaderWindow(text, 1) \cap {ConclVE, ConclRepeatVE} = {}
    /\ violations = <<>>

(* C3: a reference string detected by two different strategies appears     *)
(* exactly once in the result, at the position given by the first strategy *)
(* that found it: after every entry first found by an earlier strategy and *)
(* before every entry first found by a later one.                          *)
C3_DetectedTwiceListedOnce ==
    pc = "done" =>
        \A a \in 1..Len(violations) :
            NumberOfStrategies(text, violations[a]) >= 2 =>
                /\ Count(violations[a], violations) = 1
                /\ \A b \in 1..Len(violations) :
                       /\ FirstStrategy(text, violations[b]) < FirstStrategy(text, violations[a])
                              => b < a
                       /\ FirstStrategy(text, violations[b]) > FirstStrategy(text, violations[a])
                              => b > a

\* A finished run whose result holds a string that both the APPLICABLE RULE
\* strategy and the "R 400." strategy detected, next to another entry.
C3_Witness ==
    /\ pc = "done"
    /\ \E a \in 1..Len(violations) :
           /\ DetectedByApplicable(text, violations[a])
           /\ DetectedByR400(text, violations[a])
    /\ Len(violations) >= 2

\* The text has one rule-code header, a conclusion phrase after it inside its
\* window, and no other rule or statute citation.
C8_OneEstablishedHeader(s) ==
    /\ Cardinality({k \in 1..Len(s) : s[k] = RuleCodeLabel}) = 1
    /\ Len(rule_matches(s)) = 1
    /\ \A k \in 1..Len(s) : s[k] \notin {"R", "MCL", ApplicableLabel}
    /\ \E p \in 1..Len(s), c \in 1..Len(s) :
           /\ s[p] = RuleCodeLabel
           /\ c > p
           /\ s[c] \in {ConclVE, ConclRepeatVE}
           /\ EndOff(s, c) <= Off(s, p) + 50000

\* 'Rule <number> <rest of the header line, trimmed>' of the only header of s.
C8_Expected(s) ==
    LET p == CHOOSE p \in 1..Len(s) : s[p] = RuleCodeLabel
        q == CHOOSE q \in p + 1..Len(s) :
                 s[q] \in Numbers /\ \A j \in p + 1..q - 1 : IsSpace(s[j])
        e == CHOOSE e \in q..Len(s) :
                 /\ \A j \in q..e : s[j] # NL
                 /\ ~IsSpace(s[e])
                 /\ \A j \in e + 1..Len(s) :
                        (\A n \in e + 1..j : s[n] # NL) => IsSpace(s[j])
    IN  "Rule " \o Join(SubSeq(s, q, e))

(* C8: a text with one 'Rule Code & CPA Rule <number> <rest of line>'      *)
(* header followed in its window by 'Conclusion [Repeat] Violation         *)
(* Established', and no other citation, yields exactly                     *)
(* ['Rule <number> <rest of header line, trimmed>'].                       *)
C8_SingleEstablishedRule ==
    (pc = "done" /\ C8_OneEstablishedHeader(text))
        => violations = <<C8_Expected(text)>>

\* A finished run on such a text whose header line has trailing text and
\* trailing blanks.
C8_Witness ==
    /\ pc = "done"
    /\ C8_OneEstablishedHeader(text)
    /\ violations = <<"Rule 400.1 Staff">>

\* The text "R 400.200 is not violated".
C9_NotViolatedText == <<"R", SP, "400.200", SP, "is not violated">>

\* The citation the bare-citation loop at pc is about to look at.
C9_CurrentMatch ==
    IF pc = "r400" THEN r400_matches(text)[i] ELSE mcl_matches(text)[i]

(* C9: the bare-citation strategy records an 'R 400.<digits>' or           *)
(* 'MCL <digits>.<digits>' citation only if the 500 characters before and  *)
(* after it contain violation-indicating language and none of the negating *)
(* phrases; the text 'R 400.200 is not violated' yields the empty list.    *)
C9_BareCitationOnlyIfViolated ==
    /\ [][ (pc \in {"r400", "mcl"} /\ violations' # violations)
           => /\ \/ CitationWindow(text, C9_CurrentMatch)
                       \cap (HasViolation \cup HasViolated \cup HasNonCompliance) # {}
                 \/ /\ CitationWindow(text, C9_CurrentMatch) \cap HasNot # {}
                    /\ CitationWindow(text, C9_CurrentMatch) \cap HasCompliance # {}
              /\ CitationWindow(text, C9_CurrentMatch) \cap HasNegatingPhrase = {} ]_vars
    /\ [](pc = "done" /\ text = C9_NotViolatedText => violations = <<>>)

\* A finished run on "R 400.200 is not violated", and nothing recorded.
C9_Witness ==
    /\ pc = "done"
    /\ text = C9_NotViolatedText
    /\ violations = <<>>

-----------------------------------------------------------------------------
(* parse_rules_from_pages: lexemes of an administrative rule document      *)

\* Lexemes matching \d+ as a whole.
Digits == {"400", "1", "2", "3", "4"}
\* The footer phrase of line 37.
CourtesyFooter == "Courtesy of Michigan Administrative Rules"
\* Lexemes matching \(\d+\), \([a-z]\) and \([ivxlcdm]+\) as a whole.
NumericTokens == {"(1)", "(2)"}
\* LetterTokens with the pattern \([a-z]+\).
LetterTokens_ManyLetters == {"(a)", "(b)", "(i)", "(ii)"}

LetterTokens == {"(a)", "(b)", "(i)"}
RomanTokens == {"(i)", "(ii)"}
ParenTokens == NumericTokens \cup LetterTokens \cup RomanTokens

\* Lexemes whose first (last) character is a word character, for \b.
StartsWordy(t) == t \notin {SP, NL, "."} \cup ParenTokens
EndsWordy(t) == t \notin {SP, NL, ".", "History:"} \cup ParenTokens

\* A page that is None.
NonePage == <<"<None>">>

\* Is position p of s the start of a line: where (?m)^ matches.
IsLineStart(s, p) == p = 1 \/ s[p - 1] = NL

\* Index of the first lexeme at or after p that is not a blank: where [ \t]* stops.
RECURSIVE SkipBlank(_, _)
SkipBlank(s, p) ==
    IF p > Len(s) THEN p
    ELSE IF s[p] = SP THEN SkipBlank(s, p + 1)
    ELSE p

SetMax(S) == CHOOSE x \in S : \A y \in S : y <= x

\* Last lexeme of the phrase of a footer pattern that starts at lexeme q, or 0:
\* 'Page\s*\d+' or 'Courtesy of Michigan Administrative Rules'.
FooterBodyEnd(s, q, kind) ==
    IF q > Len(s) THEN 0
    ELSE IF kind = "page"
    THEN IF s[q] # "Page" THEN 0
         ELSE LET r == SkipSpace(s, q + 1)
              IN  IF r <= Len(s) /\ s[r] \in Digits THEN r ELSE 0
    ELSE IF s[q] = CourtesyFooter THEN q ELSE 0

\* Last lexeme of the match of a footer pattern at line start p, or 0:
\*   (?m)^\s*<phrase>\s*$
\* The trailing \s* is greedy and gives back until $ holds: at the end of the
\* text or just before a newline.
FooterMatchEnd(s, p, kind) ==
    LET b == FooterBodyEnd(s, SkipSpace(s, p), kind)
        e == SkipSpace(s, b + 1) - 1
        stops == {j \in b..e - 1 : s[j + 1] = NL}
    IN  IF b = 0 THEN 0
        ELSE IF e = Len(s) THEN e
        ELSE IF stops = {} THEN 0
        ELSE SetMax(stops)

\* re.sub(<footer pattern>, '', p), scanning from lexeme p.
RECURSIVE RemoveFooterFrom(_, _, _)
RemoveFooterFrom(s, p, kind) ==
    IF p > Len(s) THEN <<>>
    ELSE IF IsLineStart(s, p) /\ FooterMatchEnd(s, p, kind) > 0
    THEN RemoveFooterFrom(s, FooterMatchEnd(s, p, kind) + 1, kind)
    ELSE <<s[p]>> \o RemoveFooterFrom(s, p + 1, kind)

\* Number of consecutive newlines starting at lexeme p.
RECURSIVE NewlineRun(_, _)
NewlineRun(s, p) ==
    IF p <= Len(s) /\ s[p] = NL THEN 1 + NewlineRun(s, p + 1) ELSE 0

\* re.sub(r'\n{3,}', '\n\n', p2), scanning from lexeme p.
RECURSIVE CollapseNewlinesFrom(_, _)
CollapseNewlinesFrom(s, p) ==
    IF p > Len(s) THEN <<>>
    ELSE IF NewlineRun(s, p) >= 3
    THEN <<NL, NL>> \o CollapseNewlinesFrom(s, p + NewlineRun(s, p))
    ELSE <<s[p]>> \o CollapseNewlinesFrom(s, p + 1)

\* The body of the cleaning loop for one page (lines 36-40).
CleanPage(p) ==
    Strip(CollapseNewlinesFrom(
            RemoveFooterFrom(RemoveFooterFrom(p, 1, "page"), 1, "courtesy"), 1))

\* The cleaning loop: pages that are None or empty are skipped.
RECURSIVE CleanedPages(_)
CleanedPages(ps) ==
    IF ps = <<>> THEN <<>>
    ELSE IF Head(ps) = NonePage \/ Head(ps) = <<>> THEN CleanedPages(Tail(ps))
    ELSE <<CleanPage(Head(ps))>> \o CleanedPages(Tail(ps))

\* "\n".join(pages)
RECURSIVE JoinPages(_)
JoinPages(ps) ==
    IF ps = <<>> THEN <<>>
    ELSE IF Len(ps) = 1 THEN ps[1]
    ELSE ps[1] \o <<NL>> \o JoinPages(Tail(ps))

\* One match of rule_re starting at line start p, or <<>>:
\*   (?m)^[ \t]*R\s*(\d+\.\d+)\b[^\n]*\.
\* first/last: the lexemes of the match; num: where group(1) starts.  [^\n]*
\* is greedy: the match ends at the last period of the line of the number.
RuleHeaderAt(s, p) ==
    LET q == SkipBlank(s, p)
        r == SkipSpace(s, q + 1)
        periods == {j \in r + 3..LineEnd(s, r + 2) : s[j] = "."}
    IN  IF /\ IsLineStart(s, p)
           /\ q <= Len(s) /\ s[q] = "R"
           /\ r + 2 <= Len(s)
           /\ s[r] \in Digits /\ s[r + 1] = "." /\ s[r + 2] \in Digits
           /\ (r + 2 = Len(s) \/ ~StartsWordy(s[r + 3]))
           /\ periods # {}
        THEN <<[first |-> p, num |-> r, last |-> SetMax(periods)]>>
        ELSE <<>>

\* rule_re.finditer(full_text)
RECURSIVE RuleHeadersFrom(_, _)
RuleHeadersFrom(s, p) ==
    IF p > Len(s) THEN <<>>
    ELSE LET m == RuleHeaderAt(s, p)
         IN  IF m = <<>> THEN RuleHeadersFrom(s, p + 1)
             ELSE m \o RuleHeadersFrom(s, m[1].last + 1)

matches(s) == RuleHeadersFrom(s, 1)

\* re.sub(r'^\s*R\s*\d+\.\d+\s*', '', x)
StripRuleNumber(x) ==
    LET a == SkipSpace(x, 1)
        b == SkipSpace(x, a + 1)
    IN  IF /\ a <= Len(x) /\ x[a] = "R"
           /\ b + 2 <= Len(x)
           /\ x[b] \in Digits /\ x[b + 1] = "." /\ x[b + 2] \in Digits
        THEN SubSeq(x, SkipSpace(x, b + 3), Len(x))
        ELSE x

\* m.group(1)
RuleNum(s, m) == s[m.num] \o "." \o s[m.num + 2]

\* full_text[start:end].strip() for match k
RuleTextRaw(s, k) ==
    LET ms == matches(s)
        end == IF k + 1 <= Len(ms) THEN ms[k + 1].first - 1 ELSE Len(s)
    IN  Strip(SubSeq(s, ms[k].first, end))

\* rule_name (lines 86-91): the header without 'R <num>' and its last period.
RuleName(s, m) ==
    LET header_rest == Strip(StripRuleNumber(SubSeq(s, m.first, m.last)))
    IN  IF header_rest # <<>> /\ header_rest[Len(header_rest)] = "."
        THEN Strip(SubSeq(header_rest, 1, Len(header_rest) - 1))
        ELSE header_rest

\* RuleLabelDigits taking the last match instead of the first.
RuleLabelDigits_LastMatch(raw) ==
    LET hits == {k \in 1..Len(raw) :
                   /\ raw[k] = "Rule"
                   /\ (k = 1 \/ ~EndsWordy(raw[k - 1]))
                   /\ SkipSpace(raw, k + 1) > k + 1
                   /\ SkipSpace(raw, k + 1) <= Len(raw)
                   /\ raw[SkipSpace(raw, k + 1)] \in Digits
                   /\ (SkipSpace(raw, k + 1) = Len(raw)
                         \/ ~StartsWordy(raw[SkipSpace(raw, k + 1) + 1]))}
    IN  IF hits = {} THEN ""
        ELSE raw[SkipSpace(raw, (CHOOSE k \in hits : \A j \in hits : k >= j) + 1)]

\* The digits of the first match of r"\bRule\s+(\d+)\b" in raw, or "" (lines 94-99).
RuleLabelDigits(raw) ==
    LET hits == {k \in 1..Len(raw) :
                   /\ raw[k] = "Rule"
                   /\ (k = 1 \/ ~EndsWordy(raw[k - 1]))
                   /\ SkipSpace(raw, k + 1) > k + 1
                   /\ SkipSpace(raw, k + 1) <= Len(raw)
                   /\ raw[SkipSpace(raw, k + 1)] \in Digits
                   /\ (SkipSpace(raw, k + 1) = Len(raw)
                         \/ ~StartsWordy(raw[SkipSpace(raw, k + 1) + 1]))}
    IN  IF hits = {} THEN ""
        ELSE raw[SkipSpace(raw, (CHOOSE k \in hits : \A j \in hits : k <= j) + 1)]

RuleLabel(s, k) ==
    LET d == RuleLabelDigits(RuleTextRaw(s, k))
    IN  IF d # "" THEN "Rule " \o d ELSE "Rule " \o s[matches(s)[k].num + 2]

\* The match of r"History:\s*(.+?\.)" with re.S that starts at lexeme h of x,
\* or <<>>.  first/last: the lexemes of the match; grp: where group(1) starts.
\* .+? takes at least one character and stops at the first period after it.
HistoryMatchAt(x, h) ==
    LET g == SkipSpace(x, h + 1)
        periods == {j \in g + 1..Len(x) : x[j] = "."}
    IN  IF x[h] # "History:" THEN <<>>
        ELSE IF g <= Len(x) /\ periods # {}
        THEN <<[first |-> h, grp |-> g,
                last |-> CHOOSE j \in periods : \A n \in periods : j <= n]>>
        ELSE IF g <= Len(x) /\ x[g] = "." /\ g > h + 1
        THEN <<[first |-> h, grp |-> g - 1, last |-> g]>>
        ELSE <<>>

\* re.search(r"History:\s*(.+?\.)", rule_text, flags=re.S), or <<>>
RECURSIVE HistorySearchFrom(_, _)
HistorySearchFrom(x, h) ==
    IF h > Len(x) THEN <<>>
    ELSE IF HistoryMatchAt(x, h) # <<>> THEN HistoryMatchAt(x, h)
    ELSE HistorySearchFrom(x, h + 1)

hist_match(x) == HistorySearchFrom(x, 1)

\* history (None is <<>>: a match is never empty)
History(x) ==
    IF hist_match(x) = <<>> THEN <<>>
    ELSE Strip(SubSeq(x, hist_match(x)[1].grp, hist_match(x)[1].last))

\* rule_text with the history segment removed (line 108)
WithoutHistory(x) ==
    IF hist_match(x) = <<>> THEN x
    ELSE Strip(SubSeq(x, 1, hist_match(x)[1].first - 1)
                 \o SubSeq(x, hist_match(x)[1].last + 1, Len(x)))

\* rule_text after lines 83 and 101-108.
RuleText(s, k) == WithoutHistory(Strip(StripRuleNumber(RuleTextRaw(s, k))))

\* re.sub(r'[()\s]', '', tid)
Key(tid) ==
    CASE tid = "(1)" -> "1"
      [] tid = "(2)" -> "2"
      [] tid = "(a)" -> "a"
      [] tid = "(b)" -> "b"
      [] tid = "(i)" -> "i"
      [] tid = "(ii)" -> "ii"

\* The positions of the lexemes of x that match a token pattern, ascending.
RECURSIVE TokenPositionsFrom(_, _, _)
TokenPositionsFrom(x, tokens, p) ==
    IF p > Len(x) THEN <<>>
    ELSE IF x[p] \in tokens THEN <<p>> \o TokenPositionsFrom(x, tokens, p + 1)
    ELSE TokenPositionsFrom(x, tokens, p + 1)

\* split_by_token with end2 = len(text) for every part.
split_by_token_ToEnd(x, tokens) ==
    LET matches2 == TokenPositionsFrom(x, tokens, 1)
    IN  [j \in 1..Len(matches2) |->
            [id |-> Key(x[matches2[j]]),
             text |-> Strip(SubSeq(x, matches2[j] + 1, Len(x)))]]

\* split_by_token (lines 57-74); None is <<>>.
split_by_token(x, tokens) ==
    LET matches2 == TokenPositionsFrom(x, tokens, 1)
    IN  [j \in 1..Len(matches2) |->
            [id |-> Key(x[matches2[j]]),
             text |-> Strip(SubSeq(x, matches2[j] + 1,
                                   IF j + 1 <= Len(matches2)
                                   THEN matches2[j + 1] - 1 ELSE Len(x)))]]

\* A lettered part, with lp['sub'] = roman_parts when there are any (lines 121-124, 136-140).
WithRomanSub(lp) ==
    IF split_by_token(lp.text, RomanTokens) # <<>>
    THEN [id |-> lp.id, text |-> lp.text, sub |-> split_by_token(lp.text, RomanTokens)]
    ELSE lp

\* np.get('sub') of a numeric part (lines 118-130); None is <<>>.
NumericSub(np) ==
    LET letter_parts == split_by_token(np.text, LetterTokens)
    IN  IF letter_parts # <<>>
        THEN [j \in 1..Len(letter_parts) |-> WithRomanSub(letter_parts[j])]
        ELSE split_by_token(np.text, RomanTokens)

\* lp.get('sub') of a top-level lettered part; None is <<>>.
LetterSub(lp) == split_by_token(lp.text, RomanTokens)

\* conditions (lines 111-141)
Conditions(rule_text) ==
    LET numeric_parts == split_by_token(rule_text, NumericTokens)
        letter_parts_top == split_by_token(rule_text, LetterTokens)
    IN  IF numeric_parts # <<>>
        THEN [j \in 1..Len(numeric_parts) |->
                [id |-> numeric_parts[j].id, text |-> numeric_parts[j].text,
                 sub |-> NumericSub(numeric_parts[j])]]
        ELSE [j \in 1..Len(letter_parts_top) |->
                [id |-> letter_parts_top[j].id, text |-> letter_parts_top[j].text,
                 sub |-> LetterSub(letter_parts_top[j])]]

\* The record stored for match k (lines 143-149).
RuleRecord(s, k) ==
    [text |-> RuleText(s, k),
     rule_name |-> RuleName(s, matches(s)[k]),
     rule_label |-> RuleLabel(s, k),
     conditions |-> Conditions(RuleText(s, k)),
     History |-> History(Strip(StripRuleNumber(RuleTextRaw(s, k))))]

\* DictSet that keeps the value a key already has.
DictSet_KeepFirst(d, key, value) ==
    [x \in DOMAIN d \cup {key} |-> IF x \in DOMAIN d THEN d[x] ELSE value]

\* d[key] = value
DictSet(d, key, value) ==
    [x \in DOMAIN d \cup {key} |-> IF x = key THEN value ELSE d[x]]

-----------------------------------------------------------------------------
(* parse_rules_from_pages as a state machine: one step per rule header     *)

\* The input page lists: up to MaxItems items, each a piece of page text, a
\* page break or a None page.
MaxItems == 3

PageBreak == <<"<page break>">>

RulePieces ==
    << <<"R", SP, "400", ".", "1", SP, "Definitions", ".">>,
       <<"R", SP, "400", ".", "2", SP, "Staff">>,
       <<"see", SP, "R", SP, "400", ".", "3", ".">>,
       <<"(1)", SP, "Foo", ".", SP, "(a)", SP, "Bar", ".">>,
       <<"(b)", SP, "Bar", ".">>,
       <<"(2)", SP, "Baz", ".">>,
       <<"(ii)", SP, "Qux", ".">>,
       <<"History:", SP, "AC", SP, "R", SP, "400", ".", "4", ".">>,
       <<"Page", SP, "1">>,
       <<"R", NL, "400", ".", "3", SP, "Foo", ".">>,
       <<"R", SP, "400", ".", "1", SP, "Foo", ".", SP, "Bar", ".">>,
       <<"Rule", SP, "2", ".", SP, "Rule", SP, "3", ".">>,
       PageBreak,
       NonePage >>

\* The page list a sequence of items stands for: a piece of text is a line
\* of the open page (or opens one), a page break closes the open page (or is
\* an empty page), a None page is a page of its own.
RECURSIVE PagesOf(_, _, _)
PagesOf(items, pages, open) ==
    IF items = <<>> THEN pages
    ELSE LET it == Head(items)
         IN  IF it = NonePage THEN PagesOf(Tail(items), Append(pages, NonePage), FALSE)
             ELSE IF it = PageBreak
             THEN PagesOf(Tail(items), IF open THEN pages ELSE Append(pages, <<>>), FALSE)
             ELSE IF open
             THEN PagesOf(Tail(items),
                          [pages EXCEPT ![Len(pages)] = @ \o <<NL>> \o it], TRUE)
             ELSE PagesOf(Tail(items), Append(pages, it), TRUE)

RulePageLists(max) ==
    UNION { { PagesOf([k \in 1..n |-> RulePieces[f[k]]], <<>>, FALSE) :
                f \in [1..n -> 1..Len(RulePieces)] } : n \in 0..max }

InitRules ==
    /\ NoFiles
    /\ pages_text \in RulePageLists(MaxItems)
    /\ pc = "clean"
    /\ i = 1
    /\ full_text = <<>>
    /\ rules = EmptyDict
    /\ text = <<>>
    /\ violations = <<>>
    /\ text_pages = <<>>
    /\ record = EmptyDict
    /\ keywords = <<>> /\ keyword_map = <<>> /\ reduced_keywords = <<>> /\ seen = {}
    /\ frames = <<>>

\* Lines 31-43: clean the pages and join them.
CleanPages ==
    /\ pc = "clean"
    /\ full_text' = JoinPages(CleanedPages(pages_text))
    /\ pc' = "find"
    /\ UNCHANGED <<i, pages_text, rules, violationVars, docVars, keywordVars, callVars, fileVars>>

\* Lines 54-55: no header, return the empty dict.
ReturnNoMatches ==
    /\ pc = "find"
    /\ matches(full_text) = <<>>
    /\ pc' = "done"
    /\ UNCHANGED <<i, ruleVars, violationVars, docVars, keywordVars, callVars, fileVars>>

\* Lines 76-149: one pass of the loop over the headers.
RuleStep ==
    /\ pc = "find"
    /\ i <= Len(matches(full_text))
    /\ rules' = DictSet(rules, RuleNum(full_text, matches(full_text)[i]),
                        RuleRecord(full_text, i))
    /\ i' = i + 1
    /\ UNCHANGED <<pc, pages_text, full_text, violationVars, docVars, keywordVars, callVars, fileVars>>

\* Line 151: return rules.
ReturnRules ==
    /\ pc = "find"
    /\ matches(full_text) # <<>>
    /\ i > Len(matches(full_text))
    /\ pc' = "done"
    /\ UNCHANGED <<i, ruleVars, violationVars, docVars, keywordVars, callVars, fileVars>>

NextRules ==
    \/ CleanPages
    \/ ReturnNoMatches
    \/ RuleStep
    \/ ReturnRules

SpecRules == InitRules /\ [][NextRules]_vars

-----------------------------------------------------------------------------
(* Claims about parse_rules_from_pages                                     *)

\* The rule numbers of the lines of s that are, on that one line, blanks, 'R',
\* blanks, <digits>.<digits> at a word boundary and a later period.
LineHeaderNumbers(s) ==
    { s[r] \o "." \o s[r + 2] :
        r \in { r \in 1..Len(s) - 2 :
                  \E p \in 1..r - 1 :
                     /\ IsLineStart(s, p)
                     /\ s[SkipBlank(s, p)] = "R"
                     /\ r = SkipBlank(s, SkipBlank(s, p) + 1)
                     /\ s[r] \in Digits /\ s[r + 1] = "." /\ s[r + 2] \in Digits
                     /\ (r + 2 = Len(s) \/ ~StartsWordy(s[r + 3]))
                     /\ \E j \in r + 3..LineEnd(s, r + 2) : s[j] = "." } }

\* C4: when parse_rules_from_pages has returned, the keys of the mapping are
\* exactly the rule numbers that stand in the normalized text as a header of
\* one line: 'R <digits>.<digits>' at the start of the line and a period
\* later on that same line.
C4_KeysAreLineHeaders ==
    pc = "done" => DOMAIN rules = LineHeaderNumbers(full_text)

\* The levels of a condition id.
IsNumericId(x) == x \in {"1", "2"}
IsLetterId(x) == x \in {"a", "b", "i"}
IsRomanId(x) == x \in {"i", "ii"}
HasSub(c) == "sub" \in DOMAIN c /\ c.sub # <<>>

\* The conditions of every stored rule, and their children.
StoredConditions ==
    UNION { { rules[n].conditions[j] : j \in 1..Len(rules[n].conditions) } :
              n \in DOMAIN rules }
StoredChildren ==
    UNION { { c.sub[j] : j \in 1..Len(c.sub) } : c \in {c \in StoredConditions : HasSub(c)} }

\* The children of c are exactly one level below c.
OneLevelBelow(c) ==
    HasSub(c) =>
       \A j \in 1..Len(c.sub) :
          /\ IsNumericId(c.id) => IsLetterId(c.sub[j].id)
          /\ IsLetterId(c.id) => IsRomanId(c.sub[j].id)
          /\ ~IsNumericId(c.id) /\ ~IsLetterId(c.id) => FALSE

\* C5 as stated: in every stored rule, the children of a condition are exactly
\* one level below it: single letters under a number, roman numerals under a
\* letter, nothing under a roman numeral.
C5_ChildrenOneLevelBelow ==
    \A c \in StoredConditions \cup StoredChildren : OneLevelBelow(c)

\* The children of c are all of one level below c: under a letter, roman
\* numerals of several letters without children; under a number, single
\* letters, or such roman numerals when the text of c has no single-letter
\* token.
LevelsBelow(c) ==
    HasSub(c) =>
       LET ids == {c.sub[j].id : j \in 1..Len(c.sub)}
           roman == /\ \A x \in ids : IsRomanId(x) /\ ~IsLetterId(x)
                    /\ \A j \in 1..Len(c.sub) : "sub" \notin DOMAIN c.sub[j]
       IN  /\ IsNumericId(c.id) \/ IsLetterId(c.id)
           /\ IsLetterId(c.id) => roman
           /\ IsNumericId(c.id) =>
                \/ \A x \in ids : IsLetterId(x)
                \/ roman /\ \A k \in 1..Len(c.text) : c.text[k] \notin LetterTokens

\* C5 amended: the children of a condition are all of one level below it,
\* never of its own level or above; roman numerals stand under a letter, or
\* directly under a number whose text has no single-letter token.
C5_ChildrenOfOneLowerLevel ==
    /\ \A c \in StoredConditions \cup StoredChildren : LevelsBelow(c)
    /\ \A n \in DOMAIN rules :
          LET ids == {rules[n].conditions[j].id : j \in 1..Len(rules[n].conditions)}
          IN  (\A x \in ids : IsNumericId(x)) \/ (\A x \in ids : IsLetterId(x))

\* C5 witness: a returned rule with roman numerals directly under a number.
C5_Witness ==
    /\ pc = "done"
    /\ \E c \in StoredConditions : c.id = "2" /\ HasSub(c) /\ c.sub[1].id = "ii"

\* A returned rule with three levels.
C5_ThreeLevels ==
    /\ pc = "done"
    /\ \E c \in StoredConditions :
          /\ c.id = "1" /\ HasSub(c)
          /\ \E j \in 1..Len(c.sub) : /\ c.sub[j].id = "a" /\ HasSub(c.sub[j])
                                        /\ c.sub[j].sub[1].id = "ii"

\* The rule header the loop handled last, and the body it took the History
\* clause from: the raw span without its 'R <number>'.
LastHandled == i - 1
LastBody == Strip(StripRuleNumber(RuleTextRaw(full_text, LastHandled)))
LastRecord == rules[RuleNum(full_text, matches(full_text)[LastHandled])]
HistoryLabels(x) == {h \in 1..Len(x) : x[h] = "History:"}
FirstLabel(x) == CHOOSE h \in HistoryLabels(x) : \A g \in HistoryLabels(x) : h <= g

\* C6: when the body of the rule just stored has a 'History:' clause, the
\* History field is the whole clause after the label (to the end of its line)
\* and the text field is the body without the clause.
C6_HistoryIsWholeClause ==
    (/\ LastHandled \in 1..Len(matches(full_text))
     /\ HistoryLabels(LastBody) # {}) =>
        LET h == FirstLabel(LastBody)
            e == LineEnd(LastBody, h)
        IN  /\ LastRecord.History = Strip(SubSeq(LastBody, h + 1, e))
            /\ LastRecord.text = Strip(SubSeq(LastBody, 1, h - 1)
                                         \o SubSeq(LastBody, e + 1, Len(LastBody)))

\* The lexemes of x that are tokens, in order, and x without its whitespace.
TokensOf(x, tokens) == SelectSeq(x, LAMBDA t : t \in tokens)
NoSpace(x) == SelectSeq(x, LAMBDA t : ~IsSpace(t))
RECURSIVE Reassembled(_)
Reassembled(parts) ==
    IF parts = <<>> THEN <<>>
    ELSE <<"(" \o Head(parts).id \o ")">> \o NoSpace(Head(parts).text)
           \o Reassembled(Tail(parts))
RECURSIVE FromFirstToken(_, _)
FromFirstToken(x, tokens) ==
    IF x = <<>> \/ Head(x) \in tokens THEN x ELSE FromFirstToken(Tail(x), tokens)

\* parts are the segments of x at the tokens of one level: one part for each
\* token, in order, with the token's id and the text up to the next token.
Follows(parts, x, tokens) ==
    /\ Len(parts) = Len(TokensOf(x, tokens))
    /\ \A j \in 1..Len(parts) :
          /\ "(" \o parts[j].id \o ")" = TokensOf(x, tokens)[j]
          /\ TokensOf(parts[j].text, tokens) = <<>>
    /\ Reassembled([j \in 1..Len(parts) |-> [id |-> parts[j].id, text |-> parts[j].text]])
         = NoSpace(FromFirstToken(x, tokens))

C7_Body ==
    <<"(1)", SP, "Foo", ".", SP, "(a)", SP, "Bar", ".", NL, "(2)", SP, "Baz", ".">>
C7_Conditions ==
    << [id |-> "1", text |-> <<"Foo", ".", SP, "(a)", SP, "Bar", ".">>,
        sub |-> << [id |-> "a", text |-> <<"Bar", ".">>] >>],
       [id |-> "2", text |-> <<"Baz", ".">>, sub |-> <<>>] >>
EndsWithBody(x) ==
    /\ Len(x) >= Len(C7_Body)
    /\ SubSeq(x, Len(x) - Len(C7_Body) + 1, Len(x)) = C7_Body
    /\ \A k \in 1..Len(x) - Len(C7_Body) : x[k] \notin ParenTokens

\* C7: in every stored rule the conditions of a level follow that level's
\* tokens in the parent's text in number, order, id and text; a rule whose
\* body is '(1) Foo. (a) Bar. (2) Baz.' has conditions '1' (with the one
\* sub-condition 'a' of text 'Bar.') and '2' (text 'Baz.', no sub-conditions).
C7_ConditionsFollowTokens ==
    \A n \in DOMAIN rules :
       LET r == rules[n]
       IN  /\ EndsWithBody(r.text) => r.conditions = C7_Conditions
           /\ IF TokensOf(r.text, NumericTokens) # <<>>
              THEN /\ Follows(r.conditions, r.text, NumericTokens)
                   /\ \A j \in 1..Len(r.conditions) :
                         LET c == r.conditions[j]
                         IN  IF TokensOf(c.text, LetterTokens) # <<>>
                             THEN /\ Follows(c.sub, c.text, LetterTokens)
                                  /\ \A k \in 1..Len(c.sub) :
                                        IF "sub" \in DOMAIN c.sub[k]
                                        THEN Follows(c.sub[k].sub, c.sub[k].text, RomanTokens)
                                        ELSE TokensOf(c.sub[k].text, RomanTokens) = <<>>
                             ELSE Follows(c.sub, c.text, RomanTokens)
              ELSE /\ Follows(r.conditions, r.text, LetterTokens)
                   /\ \A j \in 1..Len(r.conditions) :
                         Follows(r.conditions[j].sub, r.conditions[j].text, RomanTokens)

\* C7 witness: a returned rule whose body is '(1) Foo. (a) Bar. (2) Baz.'.
C7_Witness ==
    /\ pc = "done"
    /\ \E n \in DOMAIN rules :
          EndsWithBody(rules[n].text) /\ rules[n].conditions = C7_Conditions

-----------------------------------------------------------------------------
(* The field extractors and parse_document: lexemes of a report's header   *)

\* None.  Every extractor returns a text (a sequence of lexemes) or None.
None == <<"<None>">>

\* str.upper() of a lexeme: the patterns are matched with re.IGNORECASE.
Upper(t) ==
    CASE t = "License" -> "LICENSE"
      [] t = "Number" -> "NUMBER"
      [] t = "Re:" -> "RE:"
      [] t = "Investigation" -> "INVESTIGATION"
      [] t = "Report" -> "REPORT"
      [] t = "Attached" -> "ATTACHED"
      [] t = "is" -> "IS"
      [] t = "the" -> "THE"
      [] t = "Special" -> "SPECIAL"
      [] t = "May" -> "MAY"
      [] t = "Page" -> "PAGE"
      [] t = "Agency Name:" -> "AGENCY NAME:"
      [] t = "Name of Agency:" -> "NAME OF AGENCY:"
      [] t = "Licensee Name:" -> "LICENSEE NAME:"
      [] t = "Name of Facility:" -> "NAME OF FACILITY:"
      [] t = "Date(s) of On-site Inspection:" -> "DATE(S) OF ON-SITE INSPECTION:"
      [] t = "Date of On-site Inspection(s):" -> "DATE OF ON-SITE INSPECTION(S):"
      [] t = "Special Investigation Intake Date:" -> "SPECIAL INVESTIGATION INTAKE DATE:"
      [] OTHER -> t

\* The words of the report-type phrases, and other lexemes in capitals.
TitleWords ==
    {"BUREAU", "OF", "CHILDREN", "AND", "ADULT", "LICENSING", "SPECIAL",
     "INVESTIGATION", "REPORT", "STUDY", "RENEWAL", "INSPECTION", "COMPLAINT",
     "ON-SITE", "INTERIM", "MONITORING", "CHECKLIST", "CORRECTIVE", "ACTION",
     "PLAN", "PROVISIONAL", "LICENSE", "ANNUAL", "SIR"}

\* str.title() of a lexeme that has no lower-case letter.
TitleCase(t) ==
    CASE t = "BUREAU" -> "Bureau"
      [] t = "OF" -> "Of"
      [] t = "CHILDREN" -> "Children"
      [] t = "AND" -> "And"
      [] t = "ADULT" -> "Adult"
      [] t = "LICENSING" -> "Licensing"
      [] t = "SPECIAL" -> "Special"
      [] t = "INVESTIGATION" -> "Investigation"
      [] t = "REPORT" -> "Report"
      [] t = "STUDY" -> "Study"
      [] t = "RENEWAL" -> "Renewal"
      [] t = "INSPECTION" -> "Inspection"
      [] t = "COMPLAINT" -> "Complaint"
      [] t = "ON-SITE" -> "On-Site"
      [] t = "INTERIM" -> "Interim"
      [] t = "MONITORING" -> "Monitoring"
      [] t = "CHECKLIST" -> "Checklist"
      [] t = "CORRECTIVE" -> "Corrective"
      [] t = "ACTION" -> "Action"
      [] t = "PLAN" -> "Plan"
      [] t = "PROVISIONAL" -> "Provisional"
      [] t = "LICENSE" -> "License"
      [] t = "ANNUAL" -> "Annual"
      [] t = "SIR" -> "Sir"
      [] t = "CB250296641" -> "Cb250296641"
      [] t = "CA110200973" -> "Ca110200973"
      [] OTHER -> t

\* Identifiers, numbers and dates of a report.
LicenseIds == {"CB250296641", "CA110200973"}
InvestigationIds == {"2019C0114036", "2020A0220001"}
Days == {"1"}
Years == {"2020"}
SlashDates == {"05/01/2020"}
Months ==
    {"JANUARY", "FEBRUARY", "MARCH", "APRIL", "MAY", "JUNE", "JULY", "AUGUST",
     "SEPTEMBER", "OCTOBER", "NOVEMBER", "DECEMBER"}
Names == {"SAMARITAS", "BAY", "Bethany"}

\* Lexemes made of letters and digits only.
AlnumWords ==
    (TitleWords \ {"ON-SITE"}) \cup LicenseIds \cup InvestigationIds \cup Days
      \cup Years \cup Names
      \cup {"License", "Number", "Investigation", "Report", "Attached", "is",
            "the", "Special", "May", "Page", Pad600, Pad2980, Pad3000, Pad50000}

\* The longest prefix of a lexeme that [A-Z0-9]+ matches under IGNORECASE
\* ("" when its first character is no letter or digit).
AlnumPrefix(t) ==
    CASE t \in AlnumWords -> t
      [] t = "ON-SITE" -> "ON"
      [] t = "Re:" -> "Re"
      [] t \in SlashDates -> "05"
      [] t = "Agency Name:" -> "Agency"
      [] t = "Name of Agency:" -> "Name"
      [] t = "Licensee Name:" -> "Licensee"
      [] t = "Name of Facility:" -> "Name"
      [] t = "Date(s) of On-site Inspection:" -> "Date"
      [] t = "Date of On-site Inspection(s):" -> "Date"
      [] t = "Special Investigation Intake Date:" -> "Special"
      [] t \in {"R", "MCL", "violation"} -> t
      [] t = RuleCodeLabel -> "Rule"
      [] t = ApplicableLabel -> "APPLICABLE"
      [] t \in {ConclVE, ConclRepeatVE} -> "Conclusion"
      [] t \in {SirConclVE, SirConclVNE} -> "CONCLUSION"
      [] t \in {"400.1", "400.200"} -> "400"
      [] t = "722.1" -> "722"
      [] IsUpperAlnum(t) -> t
      [] OTHER -> ""

\* Has the lexeme a lower-case letter; has it an upper-case letter.
HasLower(t) ==
    \/ t # Upper(t)
    \/ t \in {Pad600, Pad2980, Pad3000, Pad50000, "Bethany", "violation",
               RuleCodeLabel, ConclVE, ConclRepeatVE}
HasUpper(t) ==
    \/ t \in TitleWords \cup LicenseIds \cup InvestigationIds \cup {"SAMARITAS", "BAY"}
    \/ (t # Upper(t) /\ t \notin {"is", "the"})
    \/ t \in {RuleCodeLabel, ConclVE, ConclRepeatVE, "Bethany", "R", "MCL",
               ApplicableLabel, SirConclVE, SirConclVNE}
    \/ (IsUpperAlnum(t) /\ \E k \in 1..Len(t) : SubSeq(t, k, k) \in Capitals)

\* str.isupper() of a text: no lower-case letter and at least one upper-case.
IsUpper(x) ==
    /\ \A k \in 1..Len(x) : ~HasLower(x[k])
    /\ \E k \in 1..Len(x) : HasUpper(x[k])

\* str.title() of a text that is upper.
TitleCased(x) == [k \in 1..Len(x) |-> TitleCase(x[k])]

\* re.sub(r'\s+', ' ', x) and ' '.join(x.split()) of a stripped text: every
\* run of whitespace becomes one blank.
RECURSIVE CollapseSpace(_)
CollapseSpace(x) ==
    IF x = <<>> THEN <<>>
    ELSE IF IsSpace(Head(x))
    THEN <<SP>> \o CollapseSpace(SubSeq(x, SkipSpace(x, 1), Len(x)))
    ELSE <<Head(x)>> \o CollapseSpace(Tail(x))

\* The first match of a pattern, scanning from the left; at[p] is the match
\* that starts at lexeme p, or <<>>.
FirstMatch(at) ==
    LET ps == {p \in DOMAIN at : at[p] # <<>>}
    IN  IF ps = {} THEN <<>>
        ELSE at[CHOOSE p \in ps : \A q \in ps : p <= q]

\* The result of the first pattern of a list that matches: the first element
\* of found that is not <<>>, or <<>>.
RECURSIVE FirstOf(_)
FirstOf(found) ==
    IF found = <<>> THEN <<>>
    ELSE IF Head(found) # <<>> THEN Head(found)
    ELSE FirstOf(Tail(found))

\* The value that \s*:\s*([A-Z0-9]+) captures when matched from lexeme b on,
\* as <<value>>, or <<>>.
ColonValueAt(s, b) ==
    LET c == SkipSpace(s, b)
        v == SkipSpace(s, c + 1)
    IN  IF c <= Len(s) /\ s[c] = ":" /\ v <= Len(s) /\ AlnumPrefix(s[v]) # ""
        THEN <<AlnumPrefix(s[v])>>
        ELSE <<>>

\* r'License\s*#?\s*:\s*([A-Z0-9]+)' at lexeme p.
LicenseHashAt(s, p) ==
    LET a == SkipSpace(s, p + 1)
    IN  IF Upper(s[p]) # "LICENSE" THEN <<>>
        ELSE IF a <= Len(s) /\ s[a] = "#" THEN ColonValueAt(s, a + 1)
        ELSE ColonValueAt(s, a)

\* r'License\s*Number\s*:\s*([A-Z0-9]+)' at lexeme p.
LicenseNumberAt(s, p) ==
    LET a == SkipSpace(s, p + 1)
    IN  IF Upper(s[p]) = "LICENSE" /\ a <= Len(s) /\ Upper(s[a]) = "NUMBER"
        THEN ColonValueAt(s, a + 1)
        ELSE <<>>

\* r'Re:\s*License\s*#?\s*:\s*([A-Z0-9]+)' at lexeme p.
ReLicenseAt(s, p) ==
    LET a == SkipSpace(s, p + 1)
    IN  IF Upper(s[p]) = "RE:" /\ a <= Len(s) THEN LicenseHashAt(s, a) ELSE <<>>

\* extract_license_number (lines 31-45)
extract_license_number(s) ==
    LET found == FirstOf(<< FirstMatch([p \in 1..Len(s) |-> LicenseHashAt(s, p)]),
                            FirstMatch([p \in 1..Len(s) |-> LicenseNumberAt(s, p)]),
                            FirstMatch([p \in 1..Len(s) |-> ReLicenseAt(s, p)]) >>)
    IN  IF found = <<>> THEN None ELSE found

\* r'<word>\s*#\s*:\s*([A-Z0-9]+)' at lexeme p.
HashValueAt(s, p, word) ==
    LET a == SkipSpace(s, p + 1)
    IN  IF Upper(s[p]) = word /\ a <= Len(s) /\ s[a] = "#"
        THEN ColonValueAt(s, a + 1)
        ELSE <<>>

InvestigationHashAt(s, p) == HashValueAt(s, p, "INVESTIGATION")
SirHashAt(s, p) == HashValueAt(s, p, "SIR")
ReportHashAt(s, p) == HashValueAt(s, p, "REPORT")

\* extract_investigation_number (lines 152-166)
extract_investigation_number(s) ==
    LET found == FirstOf(<< FirstMatch([p \in 1..Len(s) |-> InvestigationHashAt(s, p)]),
                            FirstMatch([p \in 1..Len(s) |-> SirHashAt(s, p)]),
                            FirstMatch([p \in 1..Len(s) |-> ReportHashAt(s, p)]) >>)
    IN  IF found = <<>> THEN None ELSE found

\* The match of r'<label>\s*([^\n]+)' at the label lexeme p, or <<>>.  grp:
\* where group(1) starts; last: where it ends.  \s* runs over newlines too;
\* when only whitespace follows the label it gives back its last blank.
LabelledAt(s, p, label) ==
    LET g == SkipSpace(s, p + 1)
        blanks == {j \in p + 1..Len(s) : s[j] = SP}
    IN  IF Upper(s[p]) # label THEN <<>>
        ELSE IF g <= Len(s) THEN <<[first |-> p, grp |-> g, last |-> LineEnd(s, g)]>>
        ELSE IF blanks # {}
        THEN <<[first |-> p, grp |-> SetMax(blanks), last |-> SetMax(blanks)]>>
        ELSE <<>>

AgencyNameAt(s, p) == LabelledAt(s, p, "AGENCY NAME:")
NameOfAgencyAt(s, p) == LabelledAt(s, p, "NAME OF AGENCY:")
LicenseeNameAt(s, p) == LabelledAt(s, p, "LICENSEE NAME:")
NameOfFacilityAt(s, p) == LabelledAt(s, p, "NAME OF FACILITY:")

\* <<match.group(1).strip() with its whitespace collapsed>>, or <<>> for no match.
GroupText(s, m) ==
    IF m = <<>> THEN <<>> ELSE <<CollapseSpace(Strip(SubSeq(s, m[1].grp, m[1].last)))>>
\* <<match.group(0).strip() with its whitespace collapsed>>, or <<>> for no match.
MatchText(s, m) ==
    IF m = <<>> THEN <<>> ELSE <<CollapseSpace(Strip(SubSeq(s, m[1].first, m[1].last)))>>

\* extract_agency_name (lines 48-66)
extract_agency_name(s) ==
    LET found ==
          FirstOf(<< GroupText(s, FirstMatch([p \in 1..Len(s) |-> AgencyNameAt(s, p)])),
                     GroupText(s, FirstMatch([p \in 1..Len(s) |-> NameOfAgencyAt(s, p)])),
                     GroupText(s, FirstMatch([p \in 1..Len(s) |-> LicenseeNameAt(s, p)])),
                     GroupText(s, FirstMatch([p \in 1..Len(s) |-> NameOfFacilityAt(s, p)])) >>)
    IN  IF found = <<>> THEN None ELSE found[1]

DatesOfInspectionAt(s, p) == LabelledAt(s, p, "DATE(S) OF ON-SITE INSPECTION:")
DateOfInspectionsAt(s, p) == LabelledAt(s, p, "DATE OF ON-SITE INSPECTION(S):")
IntakeDateAt(s, p) == LabelledAt(s, p, "SPECIAL INVESTIGATION INTAKE DATE:")

\* r'(?:January|...|December)\s+\d{1,2},\s+\d{4}' at lexeme p.
MonthDateAt(s, p) ==
    LET a == SkipSpace(s, p + 1)
        b == SkipSpace(s, a + 2)
    IN  IF /\ Upper(s[p]) \in Months
           /\ a > p + 1 /\ a + 1 <= Len(s) /\ s[a] \in Days /\ s[a + 1] = ","
           /\ b > a + 2 /\ b <= Len(s) /\ s[b] \in Years
        THEN <<[first |-> p, grp |-> p, last |-> b]>>
        ELSE <<>>

\* r'\d{1,2}/\d{1,2}/\d{4}' at lexeme p.
SlashDateAt(s, p) ==
    IF s[p] \in SlashDates THEN <<[first |-> p, grp |-> p, last |-> p]>> ELSE <<>>

\* extract_inspection_date of parse_parquet_violations.py (lines 169-189):
\* group(1) is taken when the pattern holds more than one '(', which the
\* third pattern does not.
extract_inspection_date(s) ==
    LET found ==
          FirstOf(<< GroupText(s, FirstMatch([p \in 1..Len(s) |-> DatesOfInspectionAt(s, p)])),
                     GroupText(s, FirstMatch([p \in 1..Len(s) |-> DateOfInspectionsAt(s, p)])),
                     MatchText(s, FirstMatch([p \in 1..Len(s) |-> IntakeDateAt(s, p)])),
                     MatchText(s, FirstMatch([p \in 1..Len(s) |-> MonthDateAt(s, p)])),
                     MatchText(s, FirstMatch([p \in 1..Len(s) |-> SlashDateAt(s, p)])) >>)
    IN  IF found = <<>> THEN None ELSE found[1]

\* extract_inspection_date of pdf_parsing/extract_document_info.py (lines
\* 168-189): group(1) is taken when the match has a group.
extract_inspection_date_info(s) ==
    LET found ==
          FirstOf(<< GroupText(s, FirstMatch([p \in 1..Len(s) |-> DatesOfInspectionAt(s, p)])),
                     GroupText(s, FirstMatch([p \in 1..Len(s) |-> DateOfInspectionsAt(s, p)])),
                     GroupText(s, FirstMatch([p \in 1..Len(s) |-> IntakeDateAt(s, p)])),
                     MatchText(s, FirstMatch([p \in 1..Len(s) |-> MonthDateAt(s, p)])),
                     MatchText(s, FirstMatch([p \in 1..Len(s) |-> SlashDateAt(s, p)])) >>)
    IN  IF found = <<>> THEN None ELSE found[1]

\* Index of the last lexeme of the phrase `words` (single blanks between its
\* words) when it stands at lexeme p of s, else 0.
WordsAt(s, p, words) ==
    IF /\ p + 2 * (Len(words) - 1) <= Len(s)
       /\ \A k \in 1..Len(words) : Upper(s[p + 2 * (k - 1)]) = words[k]
       /\ \A k \in 1..Len(words) - 1 : s[p + 2 * k - 1] = SP
    THEN p + 2 * (Len(words) - 1)
    ELSE 0

CoverPhrase == <<"ATTACHED", "IS", "THE", "SPECIAL", "INVESTIGATION", "REPORT">>
BureauPhrase == <<"BUREAU", "OF", "CHILDREN", "AND", "ADULT", "LICENSING">>

\* title_patterns (lines 93-116): the phrase, and whether the pattern opens
\* with (?:BUREAU OF CHILDREN AND ADULT LICENSING\s+)?
title_patterns ==
    << [bureau |-> TRUE,  words |-> <<"SPECIAL", "INVESTIGATION", "REPORT">>],
       [bureau |-> TRUE,  words |-> <<"LICENSING", "STUDY">>],
       [bureau |-> FALSE, words |-> <<"LICENSING", "STUDY", "REPORT">>],
       [bureau |-> TRUE,  words |-> <<"RENEWAL", "INSPECTION", "REPORT">>],
       [bureau |-> FALSE, words |-> <<"RENEWAL", "REPORT">>],
       [bureau |-> FALSE, words |-> <<"RENEWAL", "INSPECTION">>],
       [bureau |-> FALSE, words |-> <<"COMPLAINT", "INVESTIGATION", "REPORT">>],
       [bureau |-> FALSE, words |-> <<"COMPLAINT", "INVESTIGATION">>],
       [bureau |-> TRUE,  words |-> <<"INSPECTION", "REPORT">>],
       [bureau |-> FALSE, words |-> <<"ON-SITE", "INSPECTION", "REPORT">>],
       [bureau |-> FALSE, words |-> <<"INTERIM", "MONITORING", "REPORT">>],
       [bureau |-> FALSE, words |-> <<"MONITORING", "REPORT">>],
       [bureau |-> FALSE, words |-> <<"INSPECTION", "CHECKLIST">>],
       [bureau |-> FALSE, words |-> <<"CORRECTIVE", "ACTION", "PLAN">>],
       [bureau |-> FALSE, words |-> <<"PROVISIONAL", "LICENSE", "REPORT">>] >>

\* The match of a title pattern at lexeme p, or <<>>.
PhraseAt(s, p, pat) ==
    LET e == WordsAt(s, p, BureauPhrase)
        q == SkipSpace(s, e + 1)
    IN  IF pat.bureau /\ e > 0 /\ q > e + 1 /\ WordsAt(s, q, pat.words) > 0
        THEN <<[first |-> p, grp |-> p, last |-> WordsAt(s, q, pat.words)]>>
        ELSE IF WordsAt(s, p, pat.words) > 0
        THEN <<[first |-> p, grp |-> p, last |-> WordsAt(s, p, pat.words)]>>
        ELSE <<>>

\* re.search(title_patterns[n], s, re.IGNORECASE)
PhraseSearch(s, n) == FirstMatch([p \in 1..Len(s) |-> PhraseAt(s, p, title_patterns[n])])

\* re.search(r'Attached is the Special Investigation Report', s, re.IGNORECASE)
HasCover(s) == \E p \in 1..Len(s) : WordsAt(s, p, CoverPhrase) > 0

\* The title with its case: title-cased only when it is all upper case
\* (lines 125-126, 145-146).
SmartCase(x) == IF IsUpper(x) THEN TitleCased(x) ELSE x

\* 'SPECIAL INVESTIGATION' in title.upper()
NamesSpecialInvestigation(x) ==
    \E p \in 1..Len(x) : WordsAt(x, p, <<"SPECIAL", "INVESTIGATION">>) > 0

\* f"{title} #{sir_number}" when an investigation number is found in the header.
WithSirNumber(title, header_text) ==
    IF extract_investigation_number(header_text) # None
    THEN title \o <<SP, "#">> \o extract_investigation_number(header_text)
    ELSE title

\* The title from the first pattern at or after number n that matches, or <<>>.
RECURSIVE TitleFromPatterns(_, _)
TitleFromPatterns(header_text, n) ==
    IF n > Len(title_patterns) THEN <<>>
    ELSE IF PhraseSearch(header_text, n) = <<>> THEN TitleFromPatterns(header_text, n + 1)
    ELSE LET title == SmartCase(MatchText(header_text, PhraseSearch(header_text, n))[1])
         IN  IF NamesSpecialInvestigation(title)
             THEN WithSirNumber(title, header_text)
             ELSE title

\* s.split('\n')
RECURSIVE SplitLines(_)
SplitLines(s) ==
    LET nls == {k \in 1..Len(s) : s[k] = NL}
        k == CHOOSE k \in nls : \A j \in nls : k <= j
    IN  IF nls = {} THEN <<s>>
        ELSE <<SubSeq(s, 1, k - 1)>> \o SplitLines(SubSeq(s, k + 1, Len(s)))

\* Does the line end with REPORT, STUDY, INSPECTION or INVESTIGATION (line 141).
EndsWithReportWord(line) ==
    /\ line # <<>>
    /\ Upper(line[Len(line)]) \in {"REPORT", "STUDY", "INSPECTION", "INVESTIGATION"}

\* The title from the first of the lines that is one (lines 138-147), or None.
RECURSIVE TitleFromLines(_)
TitleFromLines(lines) ==
    IF lines = <<>> THEN None
    ELSE LET line == Strip(Head(lines))
         IN  IF EndsWithReportWord(line) /\ TextLen(line) < 100
             THEN SmartCase(CollapseSpace(line))
             ELSE TitleFromLines(Tail(lines))

\* extract_document_title searching the whole text.
extract_document_title_WholeText(s) ==
    LET header_text == s
        lines == SplitLines(header_text)
    IN  IF HasCover(header_text)
        THEN WithSirNumber(<<"Special", SP, "Investigation", SP, "Report">>, header_text)
        ELSE IF TitleFromPatterns(header_text, 1) # <<>>
        THEN TitleFromPatterns(header_text, 1)
        ELSE TitleFromLines(SubSeq(lines, 1, Min(10, Len(lines))))

\* extract_document_title (lines 69-149)
extract_document_title(s) ==
    LET header_text == Slice(s, 0, 3000)
        lines == SplitLines(header_text)
    IN  IF HasCover(header_text)
        THEN WithSirNumber(<<"Special", SP, "Investigation", SP, "Report">>, header_text)
        ELSE IF TitleFromPatterns(header_text, 1) # <<>>
        THEN TitleFromPatterns(header_text, 1)
        ELSE TitleFromLines(SubSeq(lines, 1, Min(10, Len(lines))))

\* is_special_investigation searching the whole text.
is_special_investigation_WholeText(s) ==
    \/ HasCover(s)
    \/ PhraseSearch(s, 1) # <<>>
    \/ extract_investigation_number(s) # None

\* is_special_investigation (lines 192-211)
is_special_investigation(s) ==
    \/ HasCover(Slice(s, 0, 3000))
    \/ PhraseSearch(Slice(s, 0, 3000), 1) # <<>>
    \/ extract_investigation_number(Slice(s, 0, 3000)) # None

-----------------------------------------------------------------------------
(* parse_document as a state machine, in its two copies                    *)

\* The input page lists: up to MaxPageItems items, each a line of a report,
\* a page break or a None page.
MaxPageItems == 3

DocumentPieces ==
    << <<"License", SP, "#", ":", SP, "CB250296641">>,
       <<"Agency Name:", SP, "SAMARITAS", SP, SP, "BAY">>,
       <<"Attached", SP, "is", SP, "the", SP, "Special", SP, "Investigation", SP, "Report">>,
       <<"SPECIAL", SP, "INVESTIGATION", SP, "REPORT">>,
       <<"Investigation", SP, "#", ":", SP, "2019C0114036">>,
       <<"Special Investigation Intake Date:", SP, "05/01/2020">>,
       <<"May", SP, "1", ",", SP, "2020">>,
       <<"ANNUAL", SP, "REPORT">>,
       <<RuleCodeLabel, SP, "400.1", SP, ConclVE>>,
       <<ApplicableLabel, SP, "R", SP, "400.1", SP, SirConclVE>>,
       <<"MCL", SP, "722.1", SP, "violation">>,
       <<"Agency Name:">>,
       <<"Page", SP, "1">>,
       <<Pad3000>>,
       PageBreak,
       NonePage >>

DocumentPageLists(max) ==
    UNION { { PagesOf([k \in 1..n |-> DocumentPieces[f[k]]], <<>>, FALSE) :
                f \in [1..n -> 1..Len(DocumentPieces)] } : n \in 0..max }

\* pc is "join" at the start of parse_document of parse_parquet_violations.py
\* and "join_info" at the start of that of pdf_parsing/extract_document_info.py.
InitDocument ==
    /\ NoFiles
    /\ text_pages \in DocumentPageLists(MaxPageItems)
    /\ pc \in {"join", "join_info"}
    /\ record = EmptyDict
    /\ text = <<>>
    /\ i = 1
    /\ violations = <<>>
    /\ pages_text = <<>>
    /\ full_text = <<>>
    /\ rules = EmptyDict
    /\ keywords = <<>> /\ keyword_map = <<>> /\ reduced_keywords = <<>> /\ seen = {}
    /\ frames = <<>>

\* '\n'.join(text_pages) with a page that is None: str.join raises TypeError.
JoinRaises ==
    /\ pc \in {"join", "join_info"}
    /\ \E k \in 1..Len(text_pages) : text_pages[k] = NonePage
    /\ pc' = "raised"
    /\ UNCHANGED <<text, i, violations, ruleVars, docVars, keywordVars, callVars, fileVars>>

\* Line 309 with pages that are all strings, then the call of
\* extract_violations at line 316.
JoinDocument ==
    /\ pc = "join"
    /\ \A k \in 1..Len(text_pages) : text_pages[k] # NonePage
    /\ text' = JoinPages(text_pages)
    /\ pc' = "rule"
    /\ i' = 1
    /\ violations' = <<>>
    /\ UNCHANGED <<ruleVars, docVars, keywordVars, callVars, fileVars>>

\* Lines 312-327: extract_violations has returned; the other extractors run
\* on the same text and the record is built.
ReturnDocument ==
    /\ pc = "done"
    /\ record' = [agency_id |-> extract_license_number(text),
                  date |-> extract_inspection_date(text),
                  agency_name |-> extract_agency_name(text),
                  document_title |-> extract_document_title(text),
                  violations |-> violations,
                  num_violations |-> Len(violations),
                  is_special_investigation |-> is_special_investigation(text)]
    /\ pc' = "returned"
    /\ UNCHANGED <<text, i, violations, ruleVars, text_pages, keywordVars, callVars, fileVars>>

\* pdf_parsing/extract_document_info.py, lines 214-232: no violations are
\* extracted and the record has no 'violations' and no 'num_violations'.
ParseDocumentInfo ==
    /\ pc = "join_info"
    /\ \A k \in 1..Len(text_pages) : text_pages[k] # NonePage
    /\ text' = JoinPages(text_pages)
    /\ record' = [agency_id |-> extract_license_number(text'),
                  date |-> extract_inspection_date_info(text'),
                  agency_name |-> extract_agency_name(text'),
                  document_title |-> extract_document_title(text'),
                  is_special_investigation |-> is_special_investigation(text')]
    /\ pc' = "returned"
    /\ UNCHANGED <<i, violations, ruleVars, text_pages, keywordVars, callVars, fileVars>>

NextDocument ==
    \/ JoinRaises
    \/ JoinDocument
    \/ RuleCodeStep
    \/ RuleCodeEnd
    \/ ApplicableStep
    \/ ApplicableEnd
    \/ R400Step
    \/ R400End
    \/ MclStep
    \/ Return
    \/ ReturnDocument
    \/ ParseDocumentInfo

SpecDocument == InitDocument /\ [][NextDocument]_vars

-----------------------------------------------------------------------------
(* Claims about parse_document                                             *)

RecordFields ==
    {"agency_id", "date", "agency_name", "document_title", "violations",
     "num_violations", "is_special_investigation"}

\* C10: parse_document never raises, and the record it returns holds every
\* field; for a page list whose pages are all empty the fields are None, the
\* empty list, 0 and false.
C10_ReturnsCompleteRecord ==
    /\ pc # "raised"
    /\ pc = "returned" =>
          /\ DOMAIN record = RecordFields
          /\ (\A k \in 1..Len(text_pages) : text_pages[k] = <<>>) =>
                record = [agency_id |-> None, date |-> None, agency_name |-> None,
                          document_title |-> None, violations |-> <<>>,
                          num_violations |-> 0, is_special_investigation |-> FALSE]

\* parse_document of parse_parquet_violations.py has returned a record with
\* every field for a page list with an empty page.
C10_CompleteRecordReturned ==
    /\ pc = "returned"
    /\ DOMAIN record = RecordFields
    /\ \E k \in 1..Len(text_pages) : text_pages[k] = <<>>

\* extract_violations as one function: the four loops in turn.
RECURSIVE RuleCodeLoop(_, _, _)
RuleCodeLoop(s, vs, k) ==
    IF k > Len(rule_matches(s)) THEN vs ELSE RuleCodeLoop(s, RuleCodePass(s, vs, k), k + 1)
RECURSIVE ApplicableLoop(_, _, _)
ApplicableLoop(s, vs, k) ==
    IF k > Len(applicable_matches(s)) THEN vs
    ELSE ApplicableLoop(s, ApplicablePass(s, vs, k), k + 1)
RECURSIVE R400Loop(_, _, _)
R400Loop(s, vs, k) ==
    IF k > Len(r400_matches(s)) THEN vs ELSE R400Loop(s, R400Pass(s, vs, k), k + 1)
RECURSIVE MclLoop(_, _, _)
MclLoop(s, vs, k) ==
    IF k > Len(mcl_matches(s)) THEN vs ELSE MclLoop(s, MclPass(s, vs, k), k + 1)
ViolationsOf(s) ==
    MclLoop(s, R400Loop(s, ApplicableLoop(s, RuleCodeLoop(s, <<>>, 1), 1), 1), 1)

\* The record the extractors give on one text.
RecordOf(s) ==
    [agency_id |-> extract_license_number(s),
     date |-> extract_inspection_date(s),
     agency_name |-> extract_agency_name(s),
     document_title |-> extract_document_title(s),
     violations |-> ViolationsOf(s),
     num_violations |-> Len(ViolationsOf(s)),
     is_special_investigation |-> is_special_investigation(s)]

\* The normalized text of a page list: pages cleaned of footers, collapsed,
\* trimmed and joined, empty and None pages dropped.
Normalized(pages) == JoinPages(CleanedPages(pages))

\* C11: the record parse_document of parse_parquet_violations.py returns for
\* a page list is the record the extractors give on the normalized text of
\* the page list.
C11_RecordOfNormalizedText ==
    (pc = "returned" /\ "violations" \in DOMAIN record) =>
        record = RecordOf(Normalized(text_pages))

-----------------------------------------------------------------------------
(* parse_rules_from_pages on lists of whole pages                          *)

MaxPages == 4

\* Whole pages: text, a footer alone, the empty page, None, a page with a
\* run of four newlines, a rule header, and a page with a footer line between
\* blank lines and blanks at both ends.
PageCatalogue ==
    << <<"Foo", ".">>,
       <<"Page", SP, "1">>,
       <<>>,
       NonePage,
       <<"Foo", ".", NL, NL, NL, NL, "Bar", ".">>,
       <<"R", SP, "400", ".", "1", SP, "Definitions", ".">>,
       <<NL, "Foo", ".", NL, "Page", SP, "1", NL, NL, "Bar", ".", SP>> >>

WholePageLists(max) ==
    UNION { { [k \in 1..n |-> PageCatalogue[f[k]]] :
                f \in [1..n -> 1..Len(PageCatalogue)] } : n \in 0..max }

InitPages ==
    /\ NoFiles
    /\ pages_text \in WholePageLists(MaxPages)
    /\ pc = "clean"
    /\ i = 1
    /\ full_text = <<>>
    /\ rules = EmptyDict
    /\ text = <<>>
    /\ violations = <<>>
    /\ text_pages = <<>>
    /\ record = EmptyDict
    /\ keywords = <<>> /\ keyword_map = <<>> /\ reduced_keywords = <<>> /\ seen = {}
    /\ frames = <<>>

SpecPages == InitPages /\ [][NextRules]_vars

\* A run of three newlines starts at lexeme p of s.
NewlineRunOfThreeAt(s, p) ==
    p + 2 <= Len(s) /\ s[p] = NL /\ s[p + 1] = NL /\ s[p + 2] = NL

\* C12: the full text parse_rules_from_pages builds from a page list (footers
\* removed, newlines collapsed, each page trimmed, pages joined with one
\* newline) has no run of three or more consecutive newlines.
C12_NoRunOfThreeNewlines ==
    pc # "clean" => \A p \in 1..Len(full_text) : ~NewlineRunOfThreeAt(full_text, p)

\* C13: for a page list whose normalized text has no line that is a rule
\* header (line start, 'R', a dotted number and a period on that line),
\* parse_rules_from_pages returns the empty mapping.
C13_NoHeaderGivesEmptyMapping ==
    (pc = "done" /\ LineHeaderNumbers(full_text) = {}) => rules = EmptyDict

-----------------------------------------------------------------------------
(* A batch of calls of the core functions, run concurrently: each call has *)
(* its own frame of local variables, the module has no global the calls    *)
(* read or write, and the steps of the calls interleave in every order.    *)

MaxCalls == 2

\* The documents of the batch: page lists for parse_document and for
\* parse_rules_from_pages.
CallInputs ==
    { [kind |-> "parse_document",
       pages |-> << <<RuleCodeLabel, SP, "400.1", SP, ConclVE>> >>],
      [kind |-> "parse_document",
       pages |-> << <<"MCL", SP, "722.1", SP, "violation">>,
                    <<"License", SP, "#", ":", SP, "CB250296641">> >>],
      [kind |-> "parse_document", pages |-> <<>>],
      [kind |-> "parse_rules_from_pages",
       pages |-> << <<"R", SP, "400", ".", "1", SP, "Definitions", ".", NL,
                      "(", "1", ")", SP, "Foo", ".">> >>],
      [kind |-> "parse_rules_from_pages",
       pages |-> << <<"see", SP, "R", SP, "400", ".", "3", ".">> >>] }

\* The frame of a call that has not started.
NewFrame(input) ==
    [kind |-> input.kind, pages |-> input.pages,
     pc |-> IF input.kind = "parse_document" THEN "join" ELSE "clean",
     text |-> <<>>, fields |-> EmptyDict, violations |-> <<>>, i |-> 1,
     rules |-> EmptyDict, result |-> <<>>, overlapped |-> FALSE]

InitCalls ==
    /\ NoFiles
    /\ frames \in [1..MaxCalls -> {NewFrame(input) : input \in CallInputs}]
    /\ pc = "calls"
    /\ i = 1
    /\ text = <<>>
    /\ violations = <<>>
    /\ pages_text = <<>>
    /\ full_text = <<>>
    /\ rules = EmptyDict
    /\ text_pages = <<>>
    /\ record = EmptyDict
    /\ keywords = <<>> /\ keyword_map = <<>> /\ reduced_keywords = <<>> /\ seen = {}

\* Another call is between its first step and its return.
OtherRunning(c) ==
    \E d \in DOMAIN frames :
        d # c /\ frames[d].pc \notin {"join", "clean", "returned"}

\* Call c moves to frame fr; nothing outside its frame changes.
CallMoves(c, fr) ==
    /\ frames' = [frames EXCEPT
                    ![c] = [fr EXCEPT !.overlapped = @ \/ OtherRunning(c)]]
    /\ UNCHANGED <<text, pc, i, violations, ruleVars, docVars, keywordVars, fileVars>>

\* Line 216 of extract_violations: violations = [], a new list of the call.
NewList_SharedByCalls(fs, c) == IF c > 1 THEN fs[c - 1].violations ELSE <<>>
NewList(fs, c) == <<>>

\* parse_document, line 309.
CallJoin(c) ==
    /\ frames[c].pc = "join"
    /\ CallMoves(c, [frames[c] EXCEPT !.text = JoinPages(frames[c].pages),
                                      !.pc = "fields"])

\* parse_document, lines 312-315, and the entry of extract_violations.
CallFields(c) ==
    /\ frames[c].pc = "fields"
    /\ CallMoves(c, [frames[c] EXCEPT
            !.fields = [agency_id |-> extract_license_number(frames[c].text),
                        agency_name |-> extract_agency_name(frames[c].text),
                        document_title |-> extract_document_title(frames[c].text),
                        date |-> extract_inspection_date(frames[c].text)],
            !.violations = NewList(frames, c),
            !.pc = "rule"])

\* extract_violations, lines 224-249: the rule-code loop.
CallRuleCode(c) ==
    /\ frames[c].pc = "rule"
    /\ CallMoves(c, [frames[c] EXCEPT
            !.violations = RuleCodeLoop(frames[c].text, frames[c].violations, 1),
            !.pc = "applicable"])

\* extract_violations, lines 251-267: the APPLICABLE RULE loop.
CallApplicable(c) ==
    /\ frames[c].pc = "applicable"
    /\ CallMoves(c, [frames[c] EXCEPT
            !.violations = ApplicableLoop(frames[c].text, frames[c].violations, 1),
            !.pc = "r400"])

\* extract_violations, lines 270-284: the R 400 loop.
CallR400(c) ==
    /\ frames[c].pc = "r400"
    /\ CallMoves(c, [frames[c] EXCEPT
            !.violations = R400Loop(frames[c].text, frames[c].violations, 1),
            !.pc = "mcl"])

\* extract_violations, lines 287-303: the MCL loop and the return.
CallMcl(c) ==
    /\ frames[c].pc = "mcl"
    /\ CallMoves(c, [frames[c] EXCEPT
            !.violations = MclLoop(frames[c].text, frames[c].violations, 1),
            !.pc = "sir"])

\* parse_document, lines 317-327.
CallReturnDocument(c) ==
    /\ frames[c].pc = "sir"
    /\ CallMoves(c, [frames[c] EXCEPT
            !.result = [agency_id |-> frames[c].fields.agency_id,
                        date |-> frames[c].fields.date,
                        agency_name |-> frames[c].fields.agency_name,
                        document_title |-> frames[c].fields.document_title,
                        violations |-> frames[c].violations,
                        num_violations |-> Len(frames[c].violations),
                        is_special_investigation |->
                            is_special_investigation(frames[c].text)],
            !.pc = "returned"])

\* parse_rules_from_pages, lines 31-52.
CallClean(c) ==
    /\ frames[c].pc = "clean"
    /\ CallMoves(c, [frames[c] EXCEPT
            !.text = JoinPages(CleanedPages(frames[c].pages)),
            !.rules = EmptyDict,
            !.pc = "find"])

\* parse_rules_from_pages, lines 76-149: one pass of the loop.
CallRuleStep(c) ==
    /\ frames[c].pc = "find"
    /\ frames[c].i <= Len(matches(frames[c].text))
    /\ CallMoves(c, [frames[c] EXCEPT
            !.rules = DictSet(frames[c].rules,
                              RuleNum(frames[c].text, matches(frames[c].text)[frames[c].i]),
                              RuleRecord(frames[c].text, frames[c].i)),
            !.i = frames[c].i + 1])

\* parse_rules_from_pages, lines 54-55 and 151.
CallReturnRules(c) ==
    /\ frames[c].pc = "find"
    /\ frames[c].i > Len(matches(frames[c].text))
    /\ CallMoves(c, [frames[c] EXCEPT !.result = frames[c].rules,
                                      !.pc = "returned"])

NextCalls ==
    \/ \E c \in 1..MaxCalls : CallJoin(c)
    \/ \E c \in 1..MaxCalls : CallFields(c)
    \/ \E c \in 1..MaxCalls : CallRuleCode(c)
    \/ \E c \in 1..MaxCalls : CallApplicable(c)
    \/ \E c \in 1..MaxCalls : CallR400(c)
    \/ \E c \in 1..MaxCalls : CallMcl(c)
    \/ \E c \in 1..MaxCalls : CallReturnDocument(c)
    \/ \E c \in 1..MaxCalls : CallClean(c)
    \/ \E c \in 1..MaxCalls : CallRuleStep(c)
    \/ \E c \in 1..MaxCalls : CallReturnRules(c)

SpecCalls == InitCalls /\ [][NextCalls]_vars

\* parse_rules_from_pages as one function.
RECURSIVE RulesLoop(_, _, _)
RulesLoop(s, d, k) ==
    IF k > Len(matches(s)) THEN d
    ELSE RulesLoop(s, DictSet(d, RuleNum(s, matches(s)[k]), RuleRecord(s, k)), k + 1)
RulesOf(pages) == RulesLoop(Normalized(pages), EmptyDict, 1)

\* What one call alone returns on an input.
ResultOf(kind, pages) ==
    IF kind = "parse_document" THEN RecordOf(JoinPages(pages)) ELSE RulesOf(pages)

-----------------------------------------------------------------------------
(* website/keyword_reduction.py: apply_keyword_reduction                   *)

MaxKeywords == 3

\* The keywords of the lists and of the keys of the maps (the loader never
\* makes the empty string a key), and the values of the maps: a keyword, or
\* the empty string for a keyword to discard.
Keywords == {"restraint", "seclusion", "staffing"}
ReducedKeywords == Keywords \cup {""}

KeywordLists(max) == UNION { [1..n -> Keywords] : n \in 0..max }
KeywordMaps == UNION { [ks -> ReducedKeywords] : ks \in SUBSET Keywords }

InitKeywords ==
    /\ NoFiles
    /\ keywords \in KeywordLists(MaxKeywords)
    /\ keyword_map \in KeywordMaps
    /\ reduced_keywords = <<>>
    /\ seen = {}
    /\ pc = "start"
    /\ i = 1
    /\ text = <<>>
    /\ violations = <<>>
    /\ pages_text = <<>>
    /\ full_text = <<>>
    /\ rules = EmptyDict
    /\ text_pages = <<>>
    /\ record = EmptyDict
    /\ frames = <<>>

\* Lines 58-59: an empty map returns the argument itself.
ReturnKeywords ==
    /\ pc = "start"
    /\ DOMAIN keyword_map = {}
    /\ pc' = "returned keywords"
    /\ UNCHANGED <<text, i, violations, ruleVars, docVars, keywordVars, callVars, fileVars>>

\* Lines 61-62.
StartReduction ==
    /\ pc = "start"
    /\ DOMAIN keyword_map # {}
    /\ reduced_keywords' = <<>>
    /\ seen' = {}
    /\ pc' = "loop"
    /\ UNCHANGED <<text, i, violations, ruleVars, docVars, keywords, keyword_map,
                   callVars, fileVars>>

\* keyword_map.get(keyword, keyword)
MapGet(m, keyword) == IF keyword \in DOMAIN m THEN m[keyword] ELSE keyword

\* Lines 64-75: one pass of the loop.
KeywordStep ==
    /\ pc = "loop"
    /\ i <= Len(keywords)
    /\ LET reduced == MapGet(keyword_map, keywords[i])
       IN  IF reduced = ""
           THEN UNCHANGED <<reduced_keywords, seen>>
           ELSE IF reduced \notin seen
           THEN /\ reduced_keywords' = Append(reduced_keywords, reduced)
                /\ seen' = seen \cup {reduced}
           ELSE UNCHANGED <<reduced_keywords, seen>>
    /\ i' = i + 1
    /\ UNCHANGED <<text, pc, violations, ruleVars, docVars, keywords, keyword_map,
                   callVars, fileVars>>

\* Line 77.
ReturnReduced ==
    /\ pc = "loop"
    /\ i > Len(keywords)
    /\ pc' = "returned reduced_keywords"
    /\ UNCHANGED <<text, i, violations, ruleVars, docVars, keywordVars, callVars, fileVars>>

NextKeywords ==
    \/ ReturnKeywords
    \/ StartReduction
    \/ KeywordStep
    \/ ReturnReduced

SpecKeywords == InitKeywords /\ [][NextKeywords]_vars

\* The list apply_keyword_reduction has returned.
KeywordsReturned == pc \in {"returned keywords", "returned reduced_keywords"}
ReturnedList == IF pc = "returned keywords" THEN keywords ELSE reduced_keywords

\* Keyword j of the list is mapped to the empty string.
MappedToEmpty(j) == keywords[j] \in DOMAIN keyword_map /\ keyword_map[keywords[j]] = ""

\* The positions of the list that the result keeps: not mapped to the empty
\* string, and no earlier kept position has the same replacement.
FirstOccurrences ==
    { j \in 1..Len(keywords) :
        /\ ~MappedToEmpty(j)
        /\ \A h \in 1..(j - 1) :
               MappedToEmpty(h) \/
               MapGet(keyword_map, keywords[h]) # MapGet(keyword_map, keywords[j]) }

\* The h-th smallest member of a set of positions.
RECURSIVE NthPosition(_, _)
NthPosition(ps, h) ==
    LET least == CHOOSE j \in ps : \A q \in ps : j <= q
    IN  IF h = 1 THEN least ELSE NthPosition(ps \ {least}, h - 1)

\* C15: the list apply_keyword_reduction returns is the keyword list with
\* every keyword replaced by its mapping when it has one, the keywords mapped
\* to the empty string left out, and duplicates removed in first-occurrence
\* order, for every map, the empty map included.
C15_ReducedWithoutDuplicates ==
    KeywordsReturned =>
        ReturnedList = [h \in 1..Cardinality(FirstOccurrences) |->
                          MapGet(keyword_map,
                                 keywords[NthPosition(FirstOccurrences, h)])]

-----------------------------------------------------------------------------
(* extract_violations on texts with long narratives: the windows           *)

MaxWindowSegs == 3

WindowPieces ==
    << <<RuleCodeLabel, SP, "400.1", NL>>,
       <<RuleCodeLabel, SP, "400.200", NL>>,
       <<ConclVE, NL>>,
       <<"Analysis", SP, "violation", NL>>,
       <<Pad50000>>,
       <<Pad3000>>,
       <<ApplicableLabel, SP, "R", SP, "400.1", NL>>,
       <<SirConclVE, NL>>,
       <<SirConclVNE, NL>>,
       <<"MCL", SP, "722.1", SP, "violation", NL>> >>

WindowTexts(max) ==
    UNION { { Flatten([k \in 1..n |-> WindowPieces[f[k]]]) :
                f \in [1..n -> 1..Len(WindowPieces)] } : n \in 0..max }

InitWindows ==
    /\ NoFiles
    /\ text \in WindowTexts(MaxWindowSegs)
    /\ pc = "rule"
    /\ i = 1
    /\ violations = <<>>
    /\ pages_text = <<>>
    /\ full_text = <<>>
    /\ rules = EmptyDict
    /\ text_pages = <<>>
    /\ record = EmptyDict
    /\ keywords = <<>> /\ keyword_map = <<>> /\ reduced_keywords = <<>> /\ seen = {}
    /\ frames = <<>>

SpecWindows == InitWindows /\ [][Next]_vars

\* The positions of the lexemes of s that lie wholly inside the characters
\* [a, b).
PositionsWithin(s, a, b) ==
    { j \in 1..Len(s) : Off(s, j) >= a /\ EndOff(s, j) <= b }

\* The positions from the start of the k-th rule-code header up to the start
\* of the next one or, for the last header, 50,000 characters ahead.
HeaderPositions(s, k) ==
    LET ms == rule_matches(s)
        from == Off(s, ms[k].first)
    IN  PositionsWithin(s, from,
                        IF k < Len(ms) THEN Off(s, ms[k + 1].first) ELSE from + 50000)

\* The lexemes at a set of positions decide that a rule is recorded: a
\* conclusion phrase, or 'Analysis' before 'violation' with no negating
\* phrase.
PhrasesDecide(s, ps) ==
    \/ \E j \in ps : s[j] \in {ConclVE, ConclRepeatVE}
    \/ /\ \E j \in ps, k \in ps : j < k /\ s[j] \in HasAnalysis /\ s[k] \in HasViolation
       /\ \A j \in ps : s[j] \notin HasNegatingPhrase

\* C16: the pass of the rule-code loop for a header records the rule exactly
\* when the phrases between the header's start and the start of the next
\* header (for the last header: within 50,000 characters) decide it; phrases
\* at or after the next header's start play no part.
C16_HeaderWindowDecides ==
    [][ (pc = "rule" /\ i <= Len(rule_matches(text)))
        => /\ (violations' # violations) <=> PhrasesDecide(text, HeaderPositions(text, i))
           /\ violations' # violations =>
                  violations' = Append(violations, RuleRef(text, rule_matches(text)[i]))
      ]_vars

\* Two headers and one conclusion after the second: only the second rule is
\* recorded.
C16_Witness ==
    /\ pc = "done"
    /\ text = <<RuleCodeLabel, SP, "400.1", NL, RuleCodeLabel, SP, "400.200", NL,
                ConclVE, NL>>
    /\ violations = <<"Rule 400.200">>

\* The only violation or compliance wording of s is 'CONCLUSION: VIOLATION
\* NOT ESTABLISHED'.
OnlyNotEstablished(s) ==
    \A k \in 1..Len(s) :
        s[k] \in HasViolation \cup HasViolated \cup HasNonCompliance \cup HasCompliance
            => s[k] = SirConclVNE

\* The 3,000 characters from the start of an APPLICABLE RULE match.
ApplicablePositions(s, m) ==
    PositionsWithin(s, Off(s, m.first), Off(s, m.first) + 3000)

\* C17: the pass of the APPLICABLE RULE loop lists 'R <number>' exactly when
\* 'CONCLUSION: VIOLATION ESTABLISHED' lies within the 3,000 characters from
\* the occurrence (or leaves it listed), and a rule whose outcome is
\* 'CONCLUSION: VIOLATION NOT ESTABLISHED' is not in the list
\* extract_violations returns.
C17_NotEstablishedNotReported ==
    /\ [][ (pc = "applicable" /\ i <= Len(applicable_matches(text)))
           => LET m == applicable_matches(text)[i]
              IN  (violations' # violations) <=>
                      /\ \E j \in ApplicablePositions(text, m) : text[j] = SirConclVE
                      /\ NotYetListed(ApplicableRef(text, m), violations) ]_vars
    /\ [](pc = "done" =>
            \A k \in 1..Len(applicable_matches(text)) :
                LET m == applicable_matches(text)[k]
                IN  (/\ OnlyNotEstablished(text)
                     /\ \E j \in ApplicablePositions(text, m) : text[j] = SirConclVNE)
                        => \A v \in 1..Len(violations) :
                               violations[v] # ApplicableRef(text, m))

-----------------------------------------------------------------------------
(* Claims about the header, the text and repeated numbers of a rule        *)

\* The header match the loop handled last, and the first period after its
\* rule number on the line of the number.
LastMatch == matches(full_text)[LastHandled]
FirstPeriod ==
    CHOOSE p \in LastMatch.num + 3..Len(full_text) :
        /\ full_text[p] = "."
        /\ \A j \in LastMatch.num + 3..p - 1 : full_text[j] \notin {".", NL}

\* C18: the header of the rule just stored ends at the first period after the
\* rule number on the header line, and rule_name is the text between the
\* 'R <number>' token and that period.
C18_NameEndsAtFirstPeriod ==
    LastHandled \in 1..Len(matches(full_text)) =>
        /\ LastMatch.last = FirstPeriod
        /\ LastRecord.rule_name =
               Strip(SubSeq(full_text, LastMatch.num + 3, FirstPeriod - 1))

\* The lexemes of the last rule after its header, up to the next header.
BodyAfterHeader ==
    LET ms == matches(full_text)
        end == IF LastHandled + 1 <= Len(ms) THEN ms[LastHandled + 1].first - 1
               ELSE Len(full_text)
    IN  Strip(SubSeq(full_text, LastMatch.last + 1, end))

\* C19: the text field of the rule just stored is the body after the header
\* (the 'R <number>' token and the header name up to its period), with the
\* History clause removed.
C19_TextWithoutHeader ==
    LastHandled \in 1..Len(matches(full_text)) =>
        LastRecord.text = WithoutHistory(BodyAfterHeader)

\* The last header of s with rule number n.
LastOccurrence(s, n) ==
    CHOOSE k \in 1..Len(matches(s)) :
        /\ RuleNum(s, matches(s)[k]) = n
        /\ \A j \in k + 1..Len(matches(s)) : RuleNum(s, matches(s)[j]) # n

\* C20: the returned mapping has one entry for each rule number of the
\* headers, and the record of a number is the one of its last header, also
\* when the number, or another number, occurs more than once.
C20_LastOccurrenceWins ==
    pc = "done" =>
        /\ DOMAIN rules =
               {RuleNum(full_text, matches(full_text)[k]) : k \in 1..Len(matches(full_text))}
        /\ \A n \in DOMAIN rules :
               rules[n] = RuleRecord(full_text, LastOccurrence(full_text, n))

\* A returned mapping of a text where one number has two headers with
\* different records and another number has one header.
C20_Witness ==
    /\ pc = "done"
    /\ Cardinality(DOMAIN rules) = 2
    /\ \E j, k \in 1..Len(matches(full_text)) :
           /\ j < k
           /\ RuleNum(full_text, matches(full_text)[j])
                  = RuleNum(full_text, matches(full_text)[k])
           /\ RuleRecord(full_text, j) # RuleRecord(full_text, k)
           /\ rules[RuleNum(full_text, matches(full_text)[k])] = RuleRecord(full_text, k)

-----------------------------------------------------------------------------
(* Claims about rule_label                                                 *)

\* The positions of the raw span x where 'Rule', blanks and digits follow
\* one another.
RuleReferences(x) ==
    { k \in 1..Len(x) :
        /\ x[k] = "Rule"
        /\ \E d \in k + 2..Len(x) :
               /\ x[d] \in Digits
               /\ \A j \in k + 1..d - 1 : IsSpace(x[j]) }

\* The digits of the reference at position k of x.
ReferenceDigits(x, k) ==
    x[CHOOSE d \in k + 2..Len(x) :
          x[d] \in Digits /\ \A j \in k + 1..d - 1 : IsSpace(x[j])]

\* C21: rule_label of the rule just stored is 'Rule N' for the first
\* 'Rule N' reference of the rule's raw span when there is one, and otherwise
\* 'Rule ' and the component of the rule number after its dot.
C21_LabelFromFirstReference ==
    LastHandled \in 1..Len(matches(full_text)) =>
        LET raw == RuleTextRaw(full_text, LastHandled)
            refs == RuleReferences(raw)
        IN  IF refs # {}
            THEN LastRecord.rule_label =
                     "Rule " \o ReferenceDigits(raw, CHOOSE k \in refs : \A j \in refs : k <= j)
            ELSE LastRecord.rule_label = "Rule " \o full_text[LastMatch.num + 2]

\* A stored rule 400.1 whose raw span refers to 'Rule 2' and then to
\* 'Rule 3': its label is 'Rule 2'.
C21_Witness ==
    /\ LastHandled \in 1..Len(matches(full_text))
    /\ Cardinality(RuleReferences(RuleTextRaw(full_text, LastHandled))) >= 2
    /\ RuleNum(full_text, LastMatch) = "400.1"
    /\ LastRecord.rule_label = "Rule 2"

-----------------------------------------------------------------------------
(* The field extractors applied to one text                                *)

\* The input texts: up to MaxFieldSegs lines of a report or stretches of
\* narrative.
MaxFieldSegs == 3

FieldPieces ==
    << <<"License", SP, "#", ":", SP, "CB250296641", NL>>,
       <<"License", SP, "Number", ":", SP, "CA110200973", NL>>,
       <<"Agency Name:", SP, "SAMARITAS", SP, SP, "BAY", NL>>,
       <<"Licensee Name:", SP, "Bethany", NL>>,
       <<"Investigation", SP, "#", ":", SP, "2019C0114036", NL>>,
       <<"SIR", SP, "#", ":", SP, "2020A0220001", NL>>,
       <<"Special Investigation Intake Date:", SP, "05/01/2020", NL>>,
       <<"Date(s) of On-site Inspection:", SP, SP, "05/01/2020", NL>>,
       <<"May", SP, "1", ",", SP, "2020", NL>>,
       <<"Attached", SP, "is", SP, "the", SP, "Special", SP, "Investigation", SP, "Report", NL>>,
       <<"SPECIAL", SP, "INVESTIGATION", SP, "REPORT", NL>>,
       <<"LICENSING", SP, "STUDY", SP, "REPORT", NL>>,
       <<Pad3000>>,
       <<Pad2980>> >>

FieldTexts(max) ==
    UNION { { Flatten([k \in 1..n |-> FieldPieces[f[k]]]) :
                f \in [1..n -> 1..Len(FieldPieces)] } : n \in 0..max }

InitFields ==
    /\ NoFiles
    /\ text \in FieldTexts(MaxFieldSegs)
    /\ pc = "start"
    /\ record = EmptyDict
    /\ text_pages = <<>>
    /\ i = 1
    /\ violations = <<>>
    /\ pages_text = <<>>
    /\ full_text = <<>>
    /\ rules = EmptyDict
    /\ keywords = <<>> /\ keyword_map = <<>> /\ reduced_keywords = <<>> /\ seen = {}
    /\ frames = <<>>

\* A call of extract_license_number (lines 31-47).
ExtractLicenseNumber ==
    /\ pc = "start"
    /\ record' = [agency_id |-> extract_license_number(text)]
    /\ pc' = "extract_license_number"
    /\ UNCHANGED <<text, i, violations, ruleVars, text_pages, keywordVars, callVars, fileVars>>

\* A call of extract_agency_name (lines 50-66).
ExtractAgencyName ==
    /\ pc = "start"
    /\ record' = [agency_name |-> extract_agency_name(text)]
    /\ pc' = "extract_agency_name"
    /\ UNCHANGED <<text, i, violations, ruleVars, text_pages, keywordVars, callVars, fileVars>>

\* A call of extract_investigation_number (lines 152-166).
ExtractInvestigationNumber ==
    /\ pc = "start"
    /\ record' = [investigation_number |-> extract_investigation_number(text)]
    /\ pc' = "extract_investigation_number"
    /\ UNCHANGED <<text, i, violations, ruleVars, text_pages, keywordVars, callVars, fileVars>>

\* A call of extract_inspection_date of parse_parquet_violations.py
\* (lines 169-189).
ExtractInspectionDate ==
    /\ pc = "start"
    /\ record' = [date |-> extract_inspection_date(text)]
    /\ pc' = "extract_inspection_date"
    /\ UNCHANGED <<text, i, violations, ruleVars, text_pages, keywordVars, callVars, fileVars>>

\* A call of extract_inspection_date of pdf_parsing/extract_document_info.py
\* (lines 168-189).
ExtractInspectionDateInfo ==
    /\ pc = "start"
    /\ record' = [date |-> extract_inspection_date_info(text)]
    /\ pc' = "extract_inspection_date_info"
    /\ UNCHANGED <<text, i, violations, ruleVars, text_pages, keywordVars, callVars, fileVars>>

\* A call of extract_document_title (lines 69-149).
ExtractDocumentTitle ==
    /\ pc = "start"
    /\ record' = [document_title |-> extract_document_title(text)]
    /\ pc' = "extract_document_title"
    /\ UNCHANGED <<text, i, violations, ruleVars, text_pages, keywordVars, callVars, fileVars>>

\* A call of is_special_investigation (lines 192-211).
IsSpecialInvestigation ==
    /\ pc = "start"
    /\ record' = [is_special_investigation |-> is_special_investigation(text)]
    /\ pc' = "is_special_investigation"
    /\ UNCHANGED <<text, i, violations, ruleVars, text_pages, keywordVars, callVars, fileVars>>

NextFields ==
    \/ ExtractLicenseNumber
    \/ ExtractAgencyName
    \/ ExtractInvestigationNumber
    \/ ExtractInspectionDate
    \/ ExtractInspectionDateInfo
    \/ ExtractDocumentTitle
    \/ IsSpecialInvestigation

SpecFields == InitFields /\ [][NextFields]_vars

\* What each pattern of an extractor's list captures in the text, in the
\* order of the list: <<value>> for a pattern that matches, <<>> for one
\* that does not.
Captured(m) == IF m = <<>> THEN <<>> ELSE <<m>>

LicenseCaptures(s) ==
    << Captured(FirstMatch([p \in 1..Len(s) |-> LicenseHashAt(s, p)])),
       Captured(FirstMatch([p \in 1..Len(s) |-> LicenseNumberAt(s, p)])),
       Captured(FirstMatch([p \in 1..Len(s) |-> ReLicenseAt(s, p)])) >>

AgencyCaptures(s) ==
    << GroupText(s, FirstMatch([p \in 1..Len(s) |-> AgencyNameAt(s, p)])),
       GroupText(s, FirstMatch([p \in 1..Len(s) |-> NameOfAgencyAt(s, p)])),
       GroupText(s, FirstMatch([p \in 1..Len(s) |-> LicenseeNameAt(s, p)])),
       GroupText(s, FirstMatch([p \in 1..Len(s) |-> NameOfFacilityAt(s, p)])) >>

InvestigationCaptures(s) ==
    << Captured(FirstMatch([p \in 1..Len(s) |-> InvestigationHashAt(s, p)])),
       Captured(FirstMatch([p \in 1..Len(s) |-> SirHashAt(s, p)])),
       Captured(FirstMatch([p \in 1..Len(s) |-> ReportHashAt(s, p)])) >>

\* The three labelled patterns capture the text after the label; the two
\* unlabelled ones have no group and their value is the whole match.
DateCaptures(s) ==
    << GroupText(s, FirstMatch([p \in 1..Len(s) |-> DatesOfInspectionAt(s, p)])),
       GroupText(s, FirstMatch([p \in 1..Len(s) |-> DateOfInspectionsAt(s, p)])),
       GroupText(s, FirstMatch([p \in 1..Len(s) |-> IntakeDateAt(s, p)])),
       MatchText(s, FirstMatch([p \in 1..Len(s) |-> MonthDateAt(s, p)])),
       MatchText(s, FirstMatch([p \in 1..Len(s) |-> SlashDateAt(s, p)])) >>

\* The patterns of a list that match.
Matching(caps) == {k \in 1..Len(caps) : caps[k] # <<>>}

\* The value captured by the earliest pattern of the list that matches, or
\* None when none does.
EarliestCapture(caps) ==
    IF Matching(caps) = {} THEN None
    ELSE caps[CHOOSE k \in Matching(caps) : \A j \in Matching(caps) : k <= j][1]

\* C22: each of extract_license_number, extract_agency_name,
\* extract_investigation_number and extract_inspection_date returns the value
\* captured by the earliest pattern of its list that matches anywhere in the
\* text, wherever in the text the later patterns match, and None when no
\* pattern matches.
C22_EarliestPatternDecides ==
    /\ pc = "extract_license_number" =>
           record.agency_id = EarliestCapture(LicenseCaptures(text))
    /\ pc = "extract_agency_name" =>
           record.agency_name = EarliestCapture(AgencyCaptures(text))
    /\ pc = "extract_investigation_number" =>
           record.investigation_number = EarliestCapture(InvestigationCaptures(text))
    /\ pc = "extract_inspection_date" =>
           record.date = EarliestCapture(DateCaptures(text))

\* The same for the three extractors other than extract_inspection_date.
C22_OtherExtractors ==
    /\ pc = "extract_license_number" =>
           record.agency_id = EarliestCapture(LicenseCaptures(text))
    /\ pc = "extract_agency_name" =>
           record.agency_name = EarliestCapture(AgencyCaptures(text))
    /\ pc = "extract_investigation_number" =>
           record.investigation_number = EarliestCapture(InvestigationCaptures(text))

\* The first 3000 characters of the text.
Prefix3000 == Slice(text, 0, 3000)

\* The cover phrase occurs in the text and ends within its first 3000
\* characters.
CoverWithin3000 ==
    \E p \in 1..Len(text) :
        /\ WordsAt(text, p, CoverPhrase) > 0
        /\ EndOff(text, WordsAt(text, p, CoverPhrase)) <= 3000

\* C23: when the cover phrase occurs in the first 3000 characters the title
\* is 'Special Investigation Report', followed by ' #' and the investigation
\* number exactly when an investigation-number pattern matches in those 3000
\* characters, whatever other report-type phrase is present; and the title of
\* a text is the title of its first 3000 characters alone.
C23_CoverPhraseDecidesTitle ==
    pc = "extract_document_title" =>
        /\ CoverWithin3000 =>
               record.document_title =
                   IF extract_investigation_number(Prefix3000) = None
                   THEN <<"Special", SP, "Investigation", SP, "Report">>
                   ELSE <<"Special", SP, "Investigation", SP, "Report", SP, "#">>
                            \o extract_investigation_number(Prefix3000)
        /\ record.document_title = extract_document_title(Prefix3000)

\* A title with the number of the investigation, of a text that has the cover
\* phrase and the number in its first 3000 characters and goes on beyond them.
C23_Witness ==
    /\ pc = "extract_document_title"
    /\ CoverWithin3000
    /\ extract_investigation_number(Prefix3000) # None
    /\ TextLen(text) > 3000
    /\ record.document_title =
           <<"Special", SP, "Investigation", SP, "Report", SP, "#", "2019C0114036">>

\* The header phrase occurs in the text and ends within its first 3000
\* characters.
HeaderWithin3000 ==
    \E p \in 1..Len(text) :
        /\ WordsAt(text, p, <<"SPECIAL", "INVESTIGATION", "REPORT">>) > 0
        /\ EndOff(text, WordsAt(text, p, <<"SPECIAL", "INVESTIGATION", "REPORT">>)) <= 3000

\* The lexeme with the number of an occurrence of '<word> #: <number>' that
\* starts at lexeme p of s, or 0.
NumberLexeme(s, p, word) ==
    LET a == SkipSpace(s, p + 1)
        c == SkipSpace(s, a + 1)
        v == SkipSpace(s, c + 1)
    IN  IF /\ Upper(s[p]) = word
           /\ a <= Len(s) /\ s[a] = "#"
           /\ c <= Len(s) /\ s[c] = ":"
           /\ v <= Len(s) /\ AlnumPrefix(s[v]) # ""
        THEN v
        ELSE 0

\* The lexemes with the number of the occurrences of the three
\* investigation-number patterns in the text.
NumberLexemes ==
    {NumberLexeme(text, p, w) : p \in 1..Len(text), w \in {"INVESTIGATION", "SIR", "REPORT"}} \ {0}

\* An investigation number lies wholly within the first 3000 characters; its
\* label and its first character do.
NumberWithin3000 ==
    \E v \in NumberLexemes : Off(text, v) + Len(AlnumPrefix(text[v])) <= 3000
NumberStartsWithin3000 ==
    \E v \in NumberLexemes : Off(text, v) < 3000

\* C24 as stated: is_special_investigation is true exactly when the cover
\* phrase, the header phrase or an investigation number occurs wholly within
\* the first 3000 characters; an occurrence that lies partly beyond them does
\* not make it true.
C24_OnlyWhollyWithin3000 ==
    pc = "is_special_investigation" =>
        (record.is_special_investigation
            <=> (CoverWithin3000 \/ HeaderWithin3000 \/ NumberWithin3000))

\* C24 amended: is_special_investigation is true exactly when the cover
\* phrase or the header phrase occurs wholly within the first 3000
\* characters, or an investigation-number label and at least the first
\* character of its number do; a number that character 3000 cuts through
\* still makes it true.
C24_PrefixDecides ==
    pc = "is_special_investigation" =>
        (record.is_special_investigation
            <=> (CoverWithin3000 \/ HeaderWithin3000 \/ NumberStartsWithin3000))

\* A text classified as a special investigation because of a number that
\* character 3000 cuts through.
C24_Witness ==
    /\ pc = "is_special_investigation"
    /\ record.is_special_investigation
    /\ ~CoverWithin3000 /\ ~HeaderWithin3000 /\ ~NumberWithin3000
    /\ NumberStartsWithin3000

-----------------------------------------------------------------------------
(* The normalizer applied to one page of footer-like lines                 *)

\* The input pages: one page of up to MaxFooterLines lines.
MaxFooterLines == 3

FooterLines ==
    << <<"Foo", ".">>,
       <<"Page", SP, "1">>,
       <<SP, "Page", SP, "1", SP>>,
       <<"Page">>,
       <<"1">>,
       <<"see", SP, "Page", SP, "1", SP, "here">>,
       <<"page", SP, "1">>,
       <<CourtesyFooter>>,
       <<CourtesyFooter, SP, "2020">>,
       <<"courtesy of michigan administrative rules">>,
       <<"R", SP, "400", ".", "1", SP, "Definitions", ".">>,
       <<>> >>

\* '\n'.join(lines)
RECURSIVE JoinLines(_)
JoinLines(ls) ==
    IF ls = <<>> THEN <<>>
    ELSE IF Len(ls) = 1 THEN ls[1]
    ELSE ls[1] \o <<NL>> \o JoinLines(Tail(ls))

FooterPages(max) ==
    UNION { { <<JoinLines([k \in 1..n |-> FooterLines[f[k]]])>> :
                f \in [1..n -> 1..Len(FooterLines)] } : n \in 1..max }

InitFooters ==
    /\ NoFiles
    /\ pages_text \in FooterPages(MaxFooterLines)
    /\ pc = "clean"
    /\ i = 1
    /\ full_text = <<>>
    /\ rules = EmptyDict
    /\ text = <<>>
    /\ violations = <<>>
    /\ text_pages = <<>>
    /\ record = EmptyDict
    /\ keywords = <<>> /\ keyword_map = <<>> /\ reduced_keywords = <<>> /\ seen = {}
    /\ frames = <<>>

SpecFooters == InitFooters /\ [][NextRules]_vars

\* Does the line consist, apart from surrounding whitespace, of 'Page' and
\* digits, or of the footer phrase.
IsFooterLine(line) ==
    LET x == Strip(line)
    IN  \/ x = <<CourtesyFooter>>
        \/ /\ Len(x) >= 2
           /\ x[1] = "Page"
           /\ SkipBlank(x, 2) = Len(x)
           /\ x[Len(x)] \in Digits

\* The lexemes of a text that are not whitespace, in order.
RECURSIVE NonBlank(_)
NonBlank(s) ==
    IF s = <<>> THEN <<>>
    ELSE IF IsSpace(Head(s)) THEN NonBlank(Tail(s))
    ELSE <<Head(s)>> \o NonBlank(Tail(s))

\* The non-whitespace content of the lines that are no footer lines, in order.
RECURSIVE KeptContent(_)
KeptContent(lines) ==
    IF lines = <<>> THEN <<>>
    ELSE IF IsFooterLine(Head(lines)) THEN KeptContent(Tail(lines))
    ELSE NonBlank(Head(lines)) \o KeptContent(Tail(lines))

\* C25: the normalizer removes exactly the lines that consist solely of
\* 'Page <digits>' or of the footer phrase in its exact letter case; the
\* non-whitespace content of every other line stays, unchanged and in order.
C25_OnlyFooterLinesRemoved ==
    (pc # "clean" /\ Len(pages_text) = 1) =>
        NonBlank(full_text) = KeptContent(SplitLines(pages_text[1]))

-----------------------------------------------------------------------------
(* The field extractors applied to headers of report-type phrases          *)

\* The input texts: up to MaxTitleLines lines, each a report-type phrase of
\* title_patterns or the bureau's name.
MaxTitleLines == 2

\* The words of a phrase with one blank between them.
RECURSIVE Spaced(_)
Spaced(words) ==
    IF Len(words) <= 1 THEN words
    ELSE <<Head(words), SP>> \o Spaced(Tail(words))

\* The line that holds the phrase of title pattern n.
PhraseLine(n) == Spaced(title_patterns[n].words) \o <<NL>>

TitleLines ==
    [n \in 1..Len(title_patterns) + 1 |->
        IF n <= Len(title_patterns) THEN PhraseLine(n)
        ELSE Spaced(BureauPhrase) \o <<NL>>]

TitleTexts(max) ==
    UNION { { Flatten([k \in 1..n |-> TitleLines[f[k]]]) :
                f \in [1..n -> 1..Len(TitleLines)] } : n \in 0..max }

InitTitles ==
    /\ NoFiles
    /\ text \in TitleTexts(MaxTitleLines)
    /\ pc = "start"
    /\ record = EmptyDict
    /\ text_pages = <<>>
    /\ i = 1
    /\ violations = <<>>
    /\ pages_text = <<>>
    /\ full_text = <<>>
    /\ rules = EmptyDict
    /\ keywords = <<>> /\ keyword_map = <<>> /\ reduced_keywords = <<>> /\ seen = {}
    /\ frames = <<>>

SpecTitles == InitTitles /\ [][NextFields]_vars

\* C26: every report-type phrase of the pattern list can be the returned
\* title: a header that holds one phrase of the list (and no cover phrase)
\* has that phrase, in title case, as its title; 'LICENSING STUDY REPORT'
\* gives 'Licensing Study Report' and 'ON-SITE INSPECTION REPORT' gives
\* 'On-Site Inspection Report', not a shorter phrase contained in it.
C26_EveryPhraseIsATitle ==
    \A n \in 1..Len(title_patterns) :
        (pc = "extract_document_title" /\ text = PhraseLine(n)) =>
            record.document_title = TitleCased(Spaced(title_patterns[n].words))

\* Is one of the three labelled date patterns the earliest pattern of the
\* list that matches.
LabelledDateMatches(s) ==
    \E k \in 1..3 : DateCaptures(s)[k] # <<>>

\* C30: extract_inspection_date of parse_parquet_violations.py returns what
\* extract_inspection_date of pdf_parsing/extract_document_info.py returns
\* for the same text, and when a labelled date pattern is the one that
\* matches, the value is the whitespace-collapsed text after the label,
\* without the label.
C30_DateCopiesAgree ==
    pc = "extract_inspection_date" =>
        /\ record.date = extract_inspection_date_info(text)
        /\ LabelledDateMatches(text) =>
               record.date = EarliestCapture(DateCaptures(text))

-----------------------------------------------------------------------------
(* pull_facility_info.main: merging the API's agencies into the CSV file   *)

\* The columns that are kept (lines 63-77), two of the thirteen standing
\* for all.
keep_cols == <<"LicenseNumber", "AgencyName">>

\* A CSV file with its rows, and a file that does not exist.
File(rows) == [exists |-> TRUE, rows |-> rows]
NoFile == [exists |-> FALSE, rows |-> <<>>]

\* The answer of the API with its list of agencies, and a failed request.
Fetched(agencies) == [fetched |-> TRUE, responseResult |-> agencies]
FetchFailed == [fetched |-> FALSE, responseResult |-> <<>>]

\* The agencies the API returns: with keys that are not kept, without a kept
\* key, with an empty or a missing license number.
AgencyCatalogue ==
    << [LicenseNumber |-> "CA110200973", AgencyName |-> "SAMARITAS", agencyType |-> "CPA"],
       [LicenseNumber |-> "CA110200973", AgencyName |-> "Bethany", agencyType |-> "CPA"],
       [LicenseNumber |-> "CB250296641", AgencyName |-> "Bethany", agencyType |-> "CCI"],
       [LicenseNumber |-> "CB250296641", agencyType |-> "CCI"],
       [LicenseNumber |-> "", AgencyName |-> "SAMARITAS"],
       [AgencyName |-> "Bethany"] >>

\* What get_all_agency_info returns (lines 7-39): None when the request
\* fails, else the response with its list of up to MaxAgencies agencies.
MaxAgencies == 2

ApiResponses(max) ==
    {FetchFailed} \cup
    UNION { { Fetched([k \in 1..n |-> AgencyCatalogue[f[k]]]) :
                f \in [1..n -> 1..Len(AgencyCatalogue)] } : n \in 0..max }

\* d.get(key, ""): a missing key gives the default.
Get(d, key) == IF key \in DOMAIN d THEN d[key] ELSE ""

\* load_existing_data (lines 41-55), from row k of the file on.
RECURSIVE LoadRows(_, _, _)
LoadRows(rows, k, d) ==
    IF k > Len(rows) THEN d
    ELSE IF Get(rows[k], "LicenseNumber") # ""
    THEN LoadRows(rows, k + 1, DictSet(d, rows[k].LicenseNumber, rows[k]))
    ELSE LoadRows(rows, k + 1, d)

\* load_existing_data that forgets the rows of the file.
load_existing_data_Forgetful(file) == EmptyDict

load_existing_data(file) ==
    IF ~file.exists THEN EmptyDict ELSE LoadRows(file.rows, 1, EmptyDict)

\* The license numbers in sorted order.
LicenseOrder == <<"CA110200973", "CB250296641">>

\* [d[key] for key in sorted(d.keys())], from key number k of the order on.
RECURSIVE SortedRows(_, _)
SortedRows(d, k) ==
    IF k > Len(LicenseOrder) THEN <<>>
    ELSE IF LicenseOrder[k] \in DOMAIN d
    THEN <<d[LicenseOrder[k]]>> \o SortedRows(d, k + 1)
    ELSE SortedRows(d, k + 1)

\* What csv.DictWriter writes for a row: the kept columns, '' for a missing one.
WrittenRow(row) == [col \in {keep_cols[k] : k \in 1..Len(keep_cols)} |-> Get(row, col)]

InitFacility ==
    /\ csv_file = NoFile
    /\ all_agency_info = FetchFailed
    /\ existing_data = EmptyDict
    /\ csv_before = NoFile
    /\ pc = "start"
    /\ i = 1
    /\ text = <<>> /\ violations = <<>>
    /\ pages_text = <<>> /\ full_text = <<>> /\ rules = EmptyDict
    /\ text_pages = <<>> /\ record = EmptyDict
    /\ keywords = <<>> /\ keyword_map = <<>> /\ reduced_keywords = <<>> /\ seen = {}
    /\ frames = <<>>
    /\ output_csv = <<>> /\ fate = <<>> /\ count = 0
    /\ existing_shas = {} /\ shas_to_query = <<>> /\ results = <<>>

\* Line 80: a run starts by loading the file.
FacilityLoad ==
    /\ pc \in {"start", "done"}
    /\ existing_data' = load_existing_data(csv_file)
    /\ csv_before' = csv_file
    /\ pc' = "fetch"
    /\ UNCHANGED <<text, i, violations, ruleVars, docVars, keywordVars, callVars,
                   csv_file, all_agency_info, updateVars>>

\* Lines 83-86: the request fails and main returns.
FacilityFetchFails ==
    /\ pc = "fetch"
    /\ all_agency_info' = FetchFailed
    /\ pc' = "done"
    /\ UNCHANGED <<text, i, violations, ruleVars, docVars, keywordVars, callVars,
                   csv_file, existing_data, updateVars, csv_before>>

\* Lines 83-94: the request succeeds.
FacilityFetched ==
    /\ pc = "fetch"
    /\ all_agency_info' \in ApiResponses(MaxAgencies) \ {FetchFailed}
    /\ i' = 1
    /\ pc' = "merge"
    /\ UNCHANGED <<text, violations, ruleVars, docVars, keywordVars, callVars,
                   csv_file, existing_data, updateVars, csv_before>>

\* Lines 100-105: one pass of the merge loop.
FacilityMergeStep ==
    /\ pc = "merge"
    /\ i <= Len(all_agency_info.responseResult)
    /\ LET agency == all_agency_info.responseResult[i]
       IN  existing_data' =
               IF Get(agency, "LicenseNumber") # ""
               THEN DictSet(existing_data, agency.LicenseNumber, WrittenRow(agency))
               ELSE existing_data
    /\ i' = i + 1
    /\ UNCHANGED <<text, pc, violations, ruleVars, docVars, keywordVars, callVars,
                   csv_file, all_agency_info, updateVars, csv_before>>

\* Lines 108-112: the merged rows are written in the order of their
\* license numbers.
FacilityWrite ==
    /\ pc = "merge"
    /\ i > Len(all_agency_info.responseResult)
    /\ csv_file' = File([k \in 1..Len(SortedRows(existing_data, 1)) |->
                            WrittenRow(SortedRows(existing_data, 1)[k])])
    /\ pc' = "done"
    /\ UNCHANGED <<text, i, violations, ruleVars, docVars, keywordVars, callVars,
                   all_agency_info, existing_data, updateVars, csv_before>>

NextFacility ==
    \/ FacilityLoad
    \/ FacilityFetchFails
    \/ FacilityFetched
    \/ FacilityMergeStep
    \/ FacilityWrite

SpecFacility == InitFacility /\ [][NextFacility]_vars

\* The license numbers of the rows of a file, and the row of one of them.
LicensesOf(file) == {file.rows[k].LicenseNumber : k \in 1..Len(file.rows)}
RowOf(file, license) ==
    file.rows[CHOOSE k \in 1..Len(file.rows) : file.rows[k].LicenseNumber = license]

\* The agencies of the API's answer, and those that have a license number.
agency_list == all_agency_info.responseResult
ApiAgencies == {k \in 1..Len(agency_list) : Get(agency_list[k], "LicenseNumber") # ""}

\* C28: after a run of main every license number of the file before the run
\* is still in the file; a license number the API returned has the API's
\* values in the kept columns; one the API did not return has its previous
\* row; and when the request fails the file is as it was.
C28_MergeIsAppendOnly ==
    pc = "done" =>
        /\ LicensesOf(csv_before) \subseteq LicensesOf(csv_file)
        /\ \A k \in ApiAgencies :
               /\ agency_list[k].LicenseNumber \in LicensesOf(csv_file)
               /\ \E j \in ApiAgencies :
                      /\ agency_list[j].LicenseNumber = agency_list[k].LicenseNumber
                      /\ RowOf(csv_file, agency_list[k].LicenseNumber)
                             = WrittenRow(agency_list[j])
        /\ \A license \in LicensesOf(csv_before) :
               (\A k \in ApiAgencies : agency_list[k].LicenseNumber # license)
                   => RowOf(csv_file, license) = RowOf(csv_before, license)
        /\ ~all_agency_info.fetched => csv_file = csv_before

\* A run that gave one license number the API's new values and kept the row
\* of another, which the API did not return.
C28_Witness ==
    /\ pc = "done"
    /\ all_agency_info.fetched
    /\ \E k \in ApiAgencies :
           /\ agency_list[k].LicenseNumber \in LicensesOf(csv_before)
           /\ RowOf(csv_before, agency_list[k].LicenseNumber)
                  # RowOf(csv_file, agency_list[k].LicenseNumber)
    /\ \E license \in LicensesOf(csv_before) :
           /\ \A k \in ApiAgencies : agency_list[k].LicenseNumber # license
           /\ RowOf(csv_file, license) = RowOf(csv_before, license)

-----------------------------------------------------------------------------
(* update_sir_summaries.main and update_violation_levels.main: repeated    *)
(* runs that add rows to the output CSV file                               *)

\* The shas of the eligible SIRs (get_all_sir_shas, get_sirs_with_violations),
\* in sorted order.
ShaOrder == <<"sha1", "sha2", "sha3">>
AllSirShas == {ShaOrder[k] : k \in 1..Len(ShaOrder)}

\* What an attempt on a sha leads to: a stored result, a document that is in
\* no parquet file, an API error, a response that cannot be parsed.
Fates == {"ok", "not in parquet", "api error", "unparsable"}

\* args.count (args.max_count) is 1..MaxCount; reading the output file can
\* fail as long as the file would not grow beyond MaxRows rows.
MaxCount == 2
MaxRows == 4

\* set(df['sha256'].unique())
ShasOf(rows) == {rows[k] : k \in 1..Len(rows)}

\* sorted(list(missing_shas)), from sha number k of the order on.
RECURSIVE SortedShas(_, _)
SortedShas(missing_shas, k) ==
    IF k > Len(ShaOrder) THEN <<>>
    ELSE IF ShaOrder[k] \in missing_shas
    THEN <<ShaOrder[k]>> \o SortedShas(missing_shas, k + 1)
    ELSE SortedShas(missing_shas, k + 1)

\* sorted(list(missing_shas))[:n]
Selected(missing_shas, n) ==
    SubSeq(SortedShas(missing_shas, 1), 1, Min(n, Len(SortedShas(missing_shas, 1))))

InitUpdate ==
    /\ output_csv = NoFile
    /\ fate \in [AllSirShas -> Fates]
    /\ count \in 1..MaxCount
    /\ existing_shas = {}
    /\ shas_to_query = <<>>
    /\ results = <<>>
    /\ csv_before = NoFile
    /\ pc = "start"
    /\ i = 1
    /\ text = <<>> /\ violations = <<>>
    /\ pages_text = <<>> /\ full_text = <<>> /\ rules = EmptyDict
    /\ text_pages = <<>> /\ record = EmptyDict
    /\ keywords = <<>> /\ keyword_map = <<>> /\ reduced_keywords = <<>> /\ seen = {}
    /\ frames = <<>>
    /\ csv_file = <<>> /\ all_agency_info = <<>> /\ existing_data = <<>>

\* Line 325 with get_existing_summary_shas (lines 92-109): a run starts; the
\* shas of the rows of the file, or none when there is no file.
UpdateReadExisting ==
    /\ pc \in {"start", "done"}
    /\ existing_shas' = IF output_csv.exists THEN ShasOf(output_csv.rows) ELSE {}
    /\ csv_before' = output_csv
    /\ pc' = "select"
    /\ UNCHANGED <<text, i, violations, ruleVars, docVars, keywordVars, callVars,
                   facilityVars, output_csv, fate, count, shas_to_query, results>>

\* Line 325 with get_existing_summary_shas (lines 110-113): a run starts and
\* reading the file raises; the exception is logged and the set is empty.
UpdateReadFails ==
    /\ pc \in {"start", "done"}
    /\ output_csv.exists
    /\ Len(output_csv.rows) + count <= MaxRows
    /\ existing_shas' = {}
    /\ csv_before' = output_csv
    /\ pc' = "select"
    /\ UNCHANGED <<text, i, violations, ruleVars, docVars, keywordVars, callVars,
                   facilityVars, output_csv, fate, count, shas_to_query, results>>

\* Lines 328-333: no sha is missing and the run ends.
UpdateNothingMissing ==
    /\ pc = "select"
    /\ AllSirShas \ existing_shas = {}
    /\ shas_to_query' = <<>>
    /\ results' = <<>>
    /\ pc' = "done"
    /\ UNCHANGED <<text, i, violations, ruleVars, docVars, keywordVars, callVars,
                   facilityVars, output_csv, fate, count, existing_shas, csv_before>>

\* Lines 328-340: the first `count` missing shas in sorted order are chosen.
UpdateSelect ==
    /\ pc = "select"
    /\ AllSirShas \ existing_shas # {}
    /\ shas_to_query' = Selected(AllSirShas \ existing_shas, count)
    /\ results' = <<>>
    /\ i' = 1
    /\ pc' = "query"
    /\ UNCHANGED <<text, violations, ruleVars, docVars, keywordVars, callVars,
                   facilityVars, output_csv, fate, count, existing_shas, csv_before>>

\* Lines 347-352: the document is in no parquet file; the sha is skipped.
UpdateSkipNoDocument ==
    /\ pc = "query"
    /\ i <= Len(shas_to_query)
    /\ fate[shas_to_query[i]] = "not in parquet"
    /\ i' = i + 1
    /\ UNCHANGED <<text, pc, violations, ruleVars, docVars, keywordVars, callVars,
                   facilityVars, updateVars, csv_before>>

\* Lines 359 and 391-393: the query raises; the sha is skipped.
UpdateSkipApiError ==
    /\ pc = "query"
    /\ i <= Len(shas_to_query)
    /\ fate[shas_to_query[i]] = "api error"
    /\ i' = i + 1
    /\ UNCHANGED <<text, pc, violations, ruleVars, docVars, keywordVars, callVars,
                   facilityVars, updateVars, csv_before>>

\* Lines 369-374 (update_violation_levels.py: the exception of line 363,
\* caught at line 533): the response cannot be parsed; the sha is skipped.
UpdateSkipUnparsable ==
    /\ pc = "query"
    /\ i <= Len(shas_to_query)
    /\ fate[shas_to_query[i]] = "unparsable"
    /\ i' = i + 1
    /\ UNCHANGED <<text, pc, violations, ruleVars, docVars, keywordVars, callVars,
                   facilityVars, updateVars, csv_before>>

\* Lines 377-384: the result is stored.
UpdateStore ==
    /\ pc = "query"
    /\ i <= Len(shas_to_query)
    /\ fate[shas_to_query[i]] = "ok"
    /\ results' = Append(results, shas_to_query[i])
    /\ i' = i + 1
    /\ UNCHANGED <<text, pc, violations, ruleVars, docVars, keywordVars, callVars,
                   facilityVars, output_csv, fate, count, existing_shas, shas_to_query,
                   csv_before>>

\* Lines 395-397: no result, nothing is written.
UpdateNoResults ==
    /\ pc = "query"
    /\ i > Len(shas_to_query)
    /\ results = <<>>
    /\ pc' = "done"
    /\ UNCHANGED <<text, i, violations, ruleVars, docVars, keywordVars, callVars,
                   facilityVars, updateVars, csv_before>>

\* Lines 403-413: the results are appended to the file.
UpdateAppend ==
    /\ pc = "query"
    /\ i > Len(shas_to_query)
    /\ results # <<>>
    /\ output_csv' = File(output_csv.rows \o results)
    /\ pc' = "done"
    /\ UNCHANGED <<text, i, violations, ruleVars, docVars, keywordVars, callVars,
                   facilityVars, fate, count, existing_shas, shas_to_query, results,
                   csv_before>>

NextUpdate ==
    \/ UpdateReadExisting
    \/ UpdateReadFails
    \/ UpdateNothingMissing
    \/ UpdateSelect
    \/ UpdateSkipNoDocument
    \/ UpdateSkipApiError
    \/ UpdateSkipUnparsable
    \/ UpdateStore
    \/ UpdateNoResults
    \/ UpdateAppend

SpecUpdate == InitUpdate /\ [][NextUpdate]_vars

\* Runs in which reading the file never fails.
NextRuns ==
    \/ UpdateReadExisting
    \/ UpdateNothingMissing
    \/ UpdateSelect
    \/ UpdateSkipNoDocument
    \/ UpdateSkipApiError
    \/ UpdateSkipUnparsable
    \/ UpdateStore
    \/ UpdateNoResults
    \/ UpdateAppend

\* Runs are repeated for ever and every run goes on to its end.
SpecUpdateFair == InitUpdate /\ [][NextRuns]_vars /\ WF_vars(NextRuns)

\* C27: every sha queried in a run is an eligible sha without a row in the
\* output file at the start of the run, at most `count` shas are queried in
\* a run, and after any sequence of runs, also runs in which reading the
\* file fails, no sha has more than one row in the file.
C27_EachShaQueriedOnce ==
    /\ pc = "query" =>
           /\ \A k \in 1..Len(shas_to_query) :
                  /\ shas_to_query[k] \in AllSirShas
                  /\ shas_to_query[k] \notin ShasOf(csv_before.rows)
           /\ Len(shas_to_query) <= count
    /\ \A j, k \in 1..Len(output_csv.rows) :
           j # k => output_csv.rows[j] # output_csv.rows[k]

\* C29: under repeated runs with a fixed count, every eligible sha whose
\* document loads and whose query succeeds eventually has a row in the
\* output file, whatever the other shas do.
C29_GoodShaGetsRow ==
    \A sha \in AllSirShas :
        (fate[sha] = "ok") ~> (sha \in ShasOf(output_csv.rows))

=============================================================================
